---- MODULE Spec2Model ----
(***************************************************************************)
(* Verification model of the news enrichment pipeline:                     *)
(*   - the fetch merger / deduplicator      (src/main.py)                  *)
(*   - the Playwright extraction batch      (scripts/generate_inshorts_    *)
(*     playwright.py) and the workflow steps that call it (src/main.py)    *)
(*   - the pre-upload validation gate       (scripts/push_inshorts_to_     *)
(*     supabase.py)                                                        *)
(*   - the Selenium pooled batch            (scripts/generate_inshorts_    *)
(*     selenium.py)                                                        *)
(* Python str values are TLA+ strings; a character is a string of length 1.*)
(***************************************************************************)
EXTENDS Integers, Sequences, FiniteSets, TLC

VARIABLES
    \* ---- merge step (src/main.py) ----
    temp_files,      \* contents of the temp_news_*.json files handed to the merge
    final_data,      \* content of news_<final_category>.json, or NoData
    prev_data,       \* the merge output that was fed back as input, or NoData
    mphase,          \* "fetch" | "merged" | "remerged" | "idle"
    \* ---- Playwright batch (scripts/generate_inshorts_playwright.py) ----
    news_data,            \* content of the --input file
    max_articles,         \* args.max_articles
    bi,                   \* number of loop iterations done in process_news_data_playwright
    processed_articles,   \* the accumulating result list
    successful_articles,  \* the loop's success counter
    bpc,                  \* position of the script: "idle" | "load" | "launch" | "loop" | "close" | "save" | "exited" | "counted" | "gated" | "upload_raised"
    exit_code,            \* exit status of the script, -1 while it runs
    output_data,          \* content of the --output file, or NoOutput
    pw,                   \* async_playwright(): "off" | "on" | "stopped"
    browser,              \* "none" | "open" | "closed"
    page,                 \* "none" | "open" | "closed"
    step2_success,        \* success_count of step2_extract_and_summarize_playwright
    gate_result,          \* value returned by convert_inshorts_to_supabase_format
    \* ---- Selenium batch (scripts/generate_inshorts_selenium.py) ----
    sel_drivers,     \* the sessions the run holds: drivers[1] is main's driver; "open" | "closed" | "quit_failed"
    sel_leaked,      \* sessions created inside setup_selenium that it never returned
    sel_caller,      \* who runs the batch: "main" | "shared" | "direct" (see Callers)
    sel_has_articles, \* 'articles' in news_data
    sel_workers,     \* max_workers of process_news_data
    sel_n,           \* len(articles_to_process)
    sel_tasks,       \* the futures, in submission order: state, driver, error
    sel_results,     \* processed_articles
    sel_pc,          \* "idle" | "setup" | "load" | "sequential" | "create" | "cleanup" | "save" | "main_finally" | "done"
    sel_raised,      \* an exception is propagating to the caller's except
    sel_exit,        \* exit status of the script, -1 while it runs
    \* ---- content extractor (extract_clean_article_content) ----
    content_page,        \* the page the extractor is called on
    content_candidates,  \* content_candidates
    best_content,        \* best_content, NoCandidate while it is None
    final_content,       \* the returned description
    cpc,                 \* "idle" | "collect" | "select" | "limit" | "returned"
    \* ---- key points (generate_key_points) ----
    kp_description,  \* the description the function is called with
    kp_sentences,    \* sentences, after both filters
    key_points,      \* key_points, and the returned list once kpc = "returned"
    kpc,             \* "idle" | "check" | "filtered" | "first" | "returned"
    \* ---- quality score (app/scoring.py) ----
    sc_title,        \* title
    sc_image_url,    \* image_url
    sc_description,  \* description
    sc_source,       \* source
    quality_score,   \* the returned score, in tenths of a point
    kw_title,        \* the title with a breaking-news keyword added
    kw_description,  \* the description with a breaking-news keyword added
    kw_score,        \* the score of the article with the keyword, in tenths of a point
    spc,             \* "idle" | "input" | "scored" | "compared"
    \* ---- category mapper (app/db.py map_source_to_final_category) ----
    map_label,       \* the source category
    map_result,      \* the final category it is mapped to
    map_again,       \* the mapping of the category recovered from the file name
    mapc,            \* "idle" | "label" | "mapped" | "remapped"
    \* ---- browser pool (app/browser_pool.py BrowserPool) ----
    bp_driver,       \* self.driver: index of a session, NoDriver while it is None
    bp_sessions,     \* every browser the pool has created, in order of creation
    bp_last_used,    \* self.last_used, 0 while it is None
    bp_now,          \* time.time()
    bp_using,        \* per thread: the driver get_driver returned to it and it still uses
    bp_call,         \* the last call of a pool method and its outcome
    \* ---- API (app/api.py) ----
    api_table,       \* rows of the news_articles table, oldest first
    api_next_id,     \* the id the database gives the next inserted row
    api_request,     \* the last request and what its handler was given
    api_response,    \* the response to the last request
    api_trace,       \* the calls the handler of the last request made, in order
    api_stored,      \* rows the last request added to the table (negative: deleted)
    \* ---- workflow (main.py) ----
    flow_args,        \* the parsed command line of the run
    flow_before,      \* files that existed before the run started
    flow_undeletable, \* those of them on which unlink() and os.remove() raise
    flow_files,       \* files that exist now
    flow_pc,          \* the statement of main() that runs next
    flow_result,      \* step results, step 2's input files, exit code
    flow_extractions  \* the extractor runs of step 2, in order

mergeVars == <<temp_files, final_data, prev_data, mphase>>

batchVars == <<news_data, max_articles, bi, processed_articles, successful_articles,
               bpc, exit_code, output_data, pw, browser, page, step2_success, gate_result>>

poolVars == <<sel_drivers, sel_leaked, sel_caller, sel_has_articles, sel_workers, sel_n,
              sel_tasks, sel_results, sel_pc, sel_raised, sel_exit>>

contentVars == <<content_page, content_candidates, best_content, final_content, cpc>>

keyVars == <<kp_description, kp_sentences, key_points, kpc>>

scoreVars == <<sc_title, sc_image_url, sc_description, sc_source, quality_score,
               kw_title, kw_description, kw_score, spc>>

mapperVars == <<map_label, map_result, map_again, mapc>>

bpVars == <<bp_driver, bp_sessions, bp_last_used, bp_now, bp_using, bp_call>>

apiVars == <<api_table, api_next_id, api_request, api_response, api_trace, api_stored>>

flowVars == <<flow_args, flow_before, flow_undeletable, flow_files, flow_pc, flow_result,
              flow_extractions>>

vars == <<mergeVars, batchVars, poolVars, contentVars, keyVars,
         scoreVars, mapperVars, flowVars, apiVars, bpVars>>

-----------------------------------------------------------------------------
(* Bounds of the model                                                     *)

\* number of temp files (source categories) handed to one merge
MaxFiles == 3
\* number of raw entries in the input file of one extraction batch
MaxBatch == 3
\* largest max_workers a caller passes to process_news_data
MaxWorkers == 2
\* largest number of articles of a Selenium run
MaxPoolArticles == 4
\* largest number of p elements of a page given to the content extractor
MaxParagraphs == 4
\* most sentences of the pool in one description (generate_key_points)
MaxSentences == 3

-----------------------------------------------------------------------------
(* Python string helpers                                                   *)

Min(a, b) == IF a < b THEN a ELSE b
Max(a, b) == IF a > b THEN a ELSE b

Char(s, i) == SubSeq(s, i, i)

\* str.lower() on the upper-case letters
LowerOf ==
    [c \in {"A", "B", "C", "D", "E", "F", "G", "H", "I", "J", "K", "L", "M",
            "N", "O", "P", "Q", "R", "S", "T", "U", "V", "W", "X", "Y", "Z"} |->
        CASE c = "A" -> "a" [] c = "B" -> "b" [] c = "C" -> "c" [] c = "D" -> "d"
          [] c = "E" -> "e" [] c = "F" -> "f" [] c = "G" -> "g" [] c = "H" -> "h"
          [] c = "I" -> "i" [] c = "J" -> "j" [] c = "K" -> "k" [] c = "L" -> "l"
          [] c = "M" -> "m" [] c = "N" -> "n" [] c = "O" -> "o" [] c = "P" -> "p"
          [] c = "Q" -> "q" [] c = "R" -> "r" [] c = "S" -> "s" [] c = "T" -> "t"
          [] c = "U" -> "u" [] c = "V" -> "v" [] c = "W" -> "w" [] c = "X" -> "x"
          [] c = "Y" -> "y" [] c = "Z" -> "z"]

\* str.lower() on one character
LowerChar(c) == IF c \in DOMAIN LowerOf THEN LowerOf[c] ELSE c

RECURSIVE LowerRange(_, _, _)
LowerRange(s, lo, hi) ==
    IF lo > hi THEN ""
    ELSE IF lo = hi THEN LowerChar(Char(s, lo))
    ELSE LET mid == (lo + hi) \div 2
         IN  LowerRange(s, lo, mid) \o LowerRange(s, mid + 1, hi)

\* str.lower()
Lower(s) == LowerRange(s, 1, Len(s))

IsSpace(c) == c \in {" ", "\t", "\n"}

RECURSIVE LStrip(_)
LStrip(s) ==
    IF s # "" /\ IsSpace(Char(s, 1)) THEN LStrip(SubSeq(s, 2, Len(s))) ELSE s

RECURSIVE RStrip(_)
RStrip(s) ==
    IF s # "" /\ IsSpace(Char(s, Len(s))) THEN RStrip(SubSeq(s, 1, Len(s) - 1)) ELSE s

\* str.strip()
Strip(s) == RStrip(LStrip(s))

RECURSIVE SplitFrom(_, _, _)
SplitFrom(s, i, cur) ==
    IF i > Len(s) THEN (IF cur = "" THEN {} ELSE {cur})
    ELSE IF IsSpace(Char(s, i))
         THEN (IF cur = "" THEN {} ELSE {cur}) \cup SplitFrom(s, i + 1, "")
         ELSE SplitFrom(s, i + 1, cur \o Char(s, i))

\* set(s.split()): the set of whitespace-separated tokens of s
WordSet(s) == SplitFrom(s, 1, "")

\* s[:n]
Prefix(s, n) == SubSeq(s, 1, Min(n, Len(s)))

RECURSIVE UpTo(_, _, _)
UpTo(s, c, i) ==
    IF i > Len(s) THEN s
    ELSE IF Char(s, i) = c THEN SubSeq(s, 1, i - 1) ELSE UpTo(s, c, i + 1)

\* s.split(c)[0]
BeforeFirst(s, c) == UpTo(s, c, 1)

-----------------------------------------------------------------------------
(* Text helpers for long texts. Concatenations and searches work by halving *)
(* the index range, which keeps the nesting depth logarithmic in the length *)

UpperLetters ==
    {"A", "B", "C", "D", "E", "F", "G", "H", "I", "J", "K", "L", "M",
     "N", "O", "P", "Q", "R", "S", "T", "U", "V", "W", "X", "Y", "Z"}
LowerLetters ==
    {"a", "b", "c", "d", "e", "f", "g", "h", "i", "j", "k", "l", "m",
     "n", "o", "p", "q", "r", "s", "t", "u", "v", "w", "x", "y", "z"}
Digits == {"0", "1", "2", "3", "4", "5", "6", "7", "8", "9"}

\* \w of the re module, for the characters of the model's texts
IsWordChar(c) == c \in UpperLetters \cup LowerLetters \cup Digits \cup {"_"}

\* s[i:], s[:n] and s[-n:]
Suffix(s, i) == SubSeq(s, i, Len(s))
Last(s, n) == SubSeq(s, Max(1, Len(s) - n + 1), Len(s))

\* s.startswith(p) and s.endswith(p)
StartsWith(s, p) == Len(p) <= Len(s) /\ SubSeq(s, 1, Len(p)) = p
EndsWith(s, p) == Len(p) <= Len(s) /\ SubSeq(s, Len(s) - Len(p) + 1, Len(s)) = p

\* sub occurs in s at index i
OccursAt(s, sub, i) == i >= 1 /\ i + Len(sub) - 1 <= Len(s) /\ SubSeq(s, i, i + Len(sub) - 1) = sub

RECURSIVE FirstSub(_, _, _, _)
\* the least index in lo..hi at which sub occurs in s, 0 when there is none
FirstSub(s, sub, lo, hi) ==
    IF lo > hi THEN 0
    ELSE IF lo = hi THEN (IF OccursAt(s, sub, lo) THEN lo ELSE 0)
    ELSE LET mid == (lo + hi) \div 2
             left == FirstSub(s, sub, lo, mid)
         IN  IF left # 0 THEN left ELSE FirstSub(s, sub, mid + 1, hi)

RECURSIVE LastSub(_, _, _, _)
\* the greatest index in lo..hi at which sub occurs in s, 0 when there is none
LastSub(s, sub, lo, hi) ==
    IF lo > hi THEN 0
    ELSE IF lo = hi THEN (IF OccursAt(s, sub, lo) THEN lo ELSE 0)
    ELSE LET mid == (lo + hi) \div 2
             right == LastSub(s, sub, mid + 1, hi)
         IN  IF right # 0 THEN right ELSE LastSub(s, sub, lo, mid)

\* s.find(sub) + 1 and s.rfind(sub) + 1
Find(s, sub) == FirstSub(s, sub, 1, Len(s))
RFind(s, sub) == LastSub(s, sub, 1, Len(s))

\* sub in s
Contains(s, sub) == \E i \in 1..(Len(s) - Len(sub) + 1) : OccursAt(s, sub, i)

RECURSIVE CollapseRange(_, _, _)
CollapseRange(s, lo, hi) ==
    IF lo > hi THEN ""
    ELSE IF lo = hi
         THEN (IF IsSpace(Char(s, lo))
               THEN (IF lo > 1 /\ IsSpace(Char(s, lo - 1)) THEN "" ELSE " ")
               ELSE Char(s, lo))
    ELSE LET mid == (lo + hi) \div 2
         IN  CollapseRange(s, lo, mid) \o CollapseRange(s, mid + 1, hi)

\* re.sub(r'\s+', ' ', s)
CollapseSpaces(s) == CollapseRange(s, 1, Len(s))

\* len(s.split()): the number of whitespace-separated words of s
WordCount(s) ==
    Cardinality({i \in 1..Len(s) :
                    ~IsSpace(Char(s, i)) /\ (i = 1 \/ IsSpace(Char(s, i - 1)))})

\* every character of s is in the set chars, and s is not empty (^[...]+$)
AllCharsIn(s, chars) == s # "" /\ \A i \in 1..Len(s) : Char(s, i) \in chars

\* str.isupper(): some cased character, and no lower-case one
IsUpper(s) ==
    /\ \E i \in 1..Len(s) : Char(s, i) \in UpperLetters
    /\ \A i \in 1..Len(s) : Char(s, i) \notin LowerLetters

RECURSIVE Rep(_, _)
\* s * n
Rep(s, n) == IF n = 0 THEN "" ELSE s \o Rep(s, n - 1)

RECURSIVE JoinFrom(_, _, _)
JoinFrom(parts, sep, i) ==
    IF i > Len(parts) THEN ""
    ELSE IF i = Len(parts) THEN parts[i]
    ELSE parts[i] \o sep \o JoinFrom(parts, sep, i + 1)

\* sep.join(parts)
Join(parts, sep) == JoinFrom(parts, sep, 1)

-----------------------------------------------------------------------------
(* merge_news_files (src/main.py)                                          *)

\* title[:50]
TitleKeyLen == 50
\* len(title) > 10 gates the similarity check
MinSimilarTitleLen == 10
\* similarity > 0.8, kept as the exact ratio 4/5
SimilarityNum == 4
SimilarityDen == 5

\* a temp file: kind "missing" (os.path.exists is False), "unreadable" (open or
\* json.load raises), "noarticles" (a JSON object without 'articles') or "articles"
TempFile(kind, articles) == [kind |-> kind, articles |-> articles]
Missing == TempFile("missing", <<>>)
Unreadable == TempFile("unreadable", <<>>)
NoArticlesKey == TempFile("noarticles", <<>>)

\* 'articles' in data, for a file that exists and parses
IsArticleFile(f) == f.kind = "articles"

\* no file written yet
NoData ==
    [ metadata |-> [source_files |-> <<>>, count |-> 0, duplicates_removed |-> 0],
      articles |-> <<>> ]

\* title = article.get('title', '').strip().lower()
NormTitle(article) == Lower(Strip(article.title))

\* variant: the link is left out of the key
DedupKey_TitleOnly(article) ==
    LET title == NormTitle(article)
    IN  << IF title # "" THEN Prefix(title, TitleKeyLen) ELSE "", "" >>

\* key = (title_key, link_key)
DedupKey(article) ==
    LET title == NormTitle(article)
        link  == Strip(article.link)
    IN  << IF title # "" THEN Prefix(title, TitleKeyLen) ELSE "",
           IF link # "" THEN BeforeFirst(link, "?") ELSE "" >>

\* variant: similarity >= 0.8
SimilarTitles_AtLeast(title, existing_title) ==
    LET title_words    == WordSet(title)
        existing_words == WordSet(existing_title)
        overlap        == Cardinality(title_words \cap existing_words)
    IN  /\ title_words # {} /\ existing_words # {}
        /\ overlap * SimilarityDen
             >= SimilarityNum * Max(Cardinality(title_words), Cardinality(existing_words))

\* overlap / max(len(title_words), len(existing_words)) > 0.8
SimilarTitles(title, existing_title) ==
    LET title_words    == WordSet(title)
        existing_words == WordSet(existing_title)
        overlap        == Cardinality(title_words \cap existing_words)
    IN  /\ title_words # {} /\ existing_words # {}
        /\ overlap * SimilarityDen
             > SimilarityNum * Max(Cardinality(title_words), Cardinality(existing_words))

\* the inner loop over unique_articles that sets is_duplicate
IsDuplicateTitle(article, unique_articles) ==
    LET title == NormTitle(article)
    IN  /\ title # "" /\ Len(title) > MinSimilarTitleLen
        /\ \E k \in 1..Len(unique_articles) :
              LET existing_title == NormTitle(unique_articles[k])
              IN  /\ existing_title # "" /\ Len(existing_title) > MinSimilarTitleLen
                  /\ SimilarTitles(title, existing_title)

RECURSIVE DedupAdjacentFrom(_, _, _, _)
DedupAdjacentFrom(merged_articles, i, seen, unique_articles) ==
    IF i > Len(merged_articles) THEN unique_articles
    ELSE LET article == merged_articles[i]
             key     == DedupKey(article)
             before  == IF i > 1 THEN <<merged_articles[i - 1]>> ELSE <<>>
         IN  IF key \notin seen /\ ~IsDuplicateTitle(article, before)
             THEN DedupAdjacentFrom(merged_articles, i + 1, seen \cup {key},
                                    Append(unique_articles, article))
             ELSE DedupAdjacentFrom(merged_articles, i + 1, seen, unique_articles)

\* variant: the similarity loop looks at the preceding input article only
Dedup_Adjacent(merged_articles) == DedupAdjacentFrom(merged_articles, 1, {}, <<>>)

RECURSIVE DedupFrom(_, _, _, _)
DedupFrom(merged_articles, i, seen, unique_articles) ==
    IF i > Len(merged_articles) THEN unique_articles
    ELSE LET article == merged_articles[i]
             key     == DedupKey(article)
         IN  IF key \notin seen /\ ~IsDuplicateTitle(article, unique_articles)
             THEN DedupFrom(merged_articles, i + 1, seen \cup {key},
                            Append(unique_articles, article))
             ELSE DedupFrom(merged_articles, i + 1, seen, unique_articles)

\* the duplicate-detection loop: unique_articles for a list of merged_articles
Dedup(merged_articles) == DedupFrom(merged_articles, 1, {}, <<>>)

RECURSIVE ReadFrom(_, _)
\* the reading loop: merged_articles.extend(data['articles']) per readable file
ReadFrom(files, i) ==
    IF i > Len(files) THEN <<>>
    ELSE (IF IsArticleFile(files[i]) THEN files[i].articles ELSE <<>>)
         \o ReadFrom(files, i + 1)

RECURSIVE SourceFilesFrom(_, _)
\* merged_metadata["source_files"]: one entry per file with an 'articles' key
SourceFilesFrom(files, i) ==
    IF i > Len(files) THEN <<>>
    ELSE (IF IsArticleFile(files[i])
          THEN << [file |-> i, article_count |-> Len(files[i].articles)] >>
          ELSE <<>>)
         \o SourceFilesFrom(files, i + 1)

\* variant: duplicates counted from the number of distinct keys
DuplicatesRemoved_Seen(merged_articles, unique_articles) ==
    Len(merged_articles) - Cardinality({DedupKey(merged_articles[i]) : i \in 1..Len(merged_articles)})

\* merged_metadata["duplicates_removed"]
DuplicatesRemoved(merged_articles, unique_articles) ==
    Len(merged_articles) - Len(unique_articles)

\* final_data written to final_output
merge_news_files(files) ==
    LET merged_articles == ReadFrom(files, 1)
        unique_articles == Dedup(merged_articles)
    IN  [ metadata |-> [ source_files       |-> SourceFilesFrom(files, 1),
                         count              |-> Len(unique_articles),
                         duplicates_removed |-> DuplicatesRemoved(merged_articles, unique_articles) ],
          articles |-> unique_articles ]

\* Raw feed entries the fetch step can deliver
ArtA1 == [title |-> "Bengaluru techie wins award",       link |-> "https://a.example/news/1?x=1", source |-> "q1"]
ArtA2 == [title |-> "Bengaluru Techie Wins Major Award", link |-> "https://b.example/news/2",     source |-> "q2"]
ArtS1 == [title |-> "Sensex up", link |-> "https://d.example/news/4", source |-> "q1"]
ArtS2 == [title |-> "Sensex up", link |-> "https://e.example/news/5", source |-> "q2"]
ArtX  == [title |-> "Monsoon session of parliament to begin next week with key bills on agenda",
          link |-> "https://f.example/news/6", source |-> "q1"]
ArtX2 == [title |-> " MONSOON Session of parliament to begin next week with a stormy first day ",
          link |-> "https://f.example/news/6?amp", source |-> "q2"]
ArtY  == [title |-> "Monsoon session of parliament to begin next week with key bills",
          link |-> "https://g.example/news/7", source |-> "q2"]
ArtZ  == [title |-> "Budget session of parliament to begin next week with key bills on agenda",
          link |-> "https://h.example/news/8", source |-> "q2"]

ArticlePool == {ArtA1, ArtA2, ArtS1, ArtS2, ArtX, ArtX2, ArtY, ArtZ}

\* what one fetched temp file can hold
FetchResults ==
    {Missing, Unreadable, NoArticlesKey, TempFile("articles", <<>>)}
        \cup { TempFile("articles", <<a>>) : a \in ArticlePool }

\* step1_fetch_news: one more temp file is fetched for the final category
FetchTemp ==
    /\ mphase = "fetch"
    /\ Len(temp_files) < MaxFiles
    /\ \E f \in FetchResults : temp_files' = Append(temp_files, f)
    /\ UNCHANGED <<final_data, prev_data, mphase>>

\* step1_fetch_news: merge_news_files(temp_file_list, final_output, final_category)
Merge ==
    /\ mphase = "fetch"
    /\ Len(temp_files) > 0
    /\ final_data' = merge_news_files(temp_files)
    /\ mphase' = "merged"
    /\ UNCHANGED <<temp_files, prev_data>>

\* merge_news_files applied to the file it wrote
Remerge ==
    /\ mphase = "merged"
    /\ prev_data' = final_data
    /\ temp_files' = << TempFile("articles", final_data.articles) >>
    /\ final_data' = merge_news_files(<< TempFile("articles", final_data.articles) >>)
    /\ mphase' = "remerged"

MergeStart ==
    /\ temp_files = <<>>
    /\ final_data = NoData
    /\ prev_data = NoData
    /\ mphase = "fetch"

MergeIdle ==
    /\ temp_files = <<>>
    /\ final_data = NoData
    /\ prev_data = NoData
    /\ mphase = "idle"

NextMerge ==
    \/ FetchTemp /\ UNCHANGED <<batchVars, poolVars, contentVars, keyVars, scoreVars, mapperVars, flowVars, apiVars, bpVars>>
    \/ Merge /\ UNCHANGED <<batchVars, poolVars, contentVars, keyVars, scoreVars, mapperVars, flowVars, apiVars, bpVars>>
    \/ Remerge /\ UNCHANGED <<batchVars, poolVars, contentVars, keyVars, scoreVars, mapperVars, flowVars, apiVars, bpVars>>

-----------------------------------------------------------------------------
(* scripts/generate_inshorts_playwright.py: one extraction batch           *)

\* Python None
None == "<None>"

\* truthiness of an optional string
Truthy(x) == x # None /\ x # ""

\* entry.get(key, default)
EntryGet(entry, key, default) == IF key \in DOMAIN entry THEN entry[key] ELSE default


\* hashlib.md5(x.encode()).hexdigest(), taken as collision-free
MD5(x) == "md5:" \o x

\* content[:200]
ContentHashLen == 200
\* --max-articles default
MaxArticlesDefault == 10

\* What the browser meets at one link:
\*   goto        "ok" | "timeout"   page.goto returns, or raises on the timeout
\*   after_goto  page.url after the first navigation
\*   after_wait  page.url after the extra wait on an aggregator page
\*   gn_links    hrefs on the aggregator page that pass _is_valid_article_url
\*   after_link  page.url after the navigation to the first of gn_links
\*   gn_raises   an exception is raised while the aggregator page is resolved
\*   clean_title the title found by the first strategy of extract_clean_title
\*               that succeeds (None when every strategy fails)
\*   page_title  page.title()
\*   title_raises page.query_selector_all("h1") raises in extract_clean_title
\*   image       og_image or twitter_image or best_image (None when all are missing)
\*   description result of extract_clean_article_content
\*   raises      an exception escapes inside process_single_article_playwright
Page(goto, after_goto, after_wait, gn_links, gn_raises, clean_title, image, description, raises) ==
    [ goto |-> goto, after_goto |-> after_goto, after_wait |-> after_wait,
      gn_links |-> gn_links, gn_raises |-> gn_raises,
      after_link |-> IF gn_links = <<>> THEN "" ELSE gn_links[1],
      clean_title |-> clean_title,
      page_title |-> IF clean_title = None THEN "" ELSE clean_title,
      title_raises |-> FALSE,
      image |-> image, description |-> description, raises |-> raises ]

\* the site answers the navigation to the first link with a redirect to final_url
RedirectedTo(p, final_url) == [p EXCEPT !.after_link = final_url]

\* the h1 query of extract_clean_title raises on a page with this page title
TitleQueryRaises(p, page_title) == [p EXCEPT !.title_raises = TRUE, !.page_title = page_title]

SentinelNoContent == "Article content could not be extracted."
GnFailedDescription == "Could not resolve Google News URL to actual article"
NoImagePlaceholder == "https://via.placeholder.com/300x150?text=No+Image"
NoUrlPlaceholder == "https://via.placeholder.com/300x150?text=No+URL"
ErrorPlaceholder == "https://via.placeholder.com/300x150?text=Error"
GnFailedPlaceholder == "https://via.placeholder.com/300x150?text=Google+News+Redirect+Failed"
GnErrorPlaceholder == "https://via.placeholder.com/300x150?text=Google+News+Error"

IsGoogleNews(u) == Contains(u, "news.google.com")

TitleSuffixes ==
    << " - NDTV", " | NDTV", " - NDTV.com", " | NDTV.com",
       " - News", " | News", " - Latest News", " | Latest News",
       " - Breaking News", " | Breaking News",
       " - Video", " | Video", " - Videos", " | Videos",
       " - Watch", " | Watch" >>

\* clean_title_suffix(title): the first suffix of the list that ends the title is cut
clean_title_suffix(title) ==
    LET hits == {k \in 1..Len(TitleSuffixes) : EndsWith(title, TitleSuffixes[k])}
    IN  IF title = "" \/ hits = {} THEN title
        ELSE LET k == CHOOSE x \in hits : \A y \in hits : x <= y
             IN  Strip(SubSeq(title, 1, Len(title) - Len(TitleSuffixes[k])))

NoTitleFound == "No Title Found"
ErrorExtractingTitle == "Error Extracting Title"

\* extract_clean_title(page, page_title): the title of the first strategy that
\* succeeds, without its suffix, and "No Title Found" when every strategy fails;
\* the outer except returns the page title as it is, or its own message
extract_clean_title(p) ==
    IF p.title_raises
    THEN (IF Truthy(p.page_title) THEN p.page_title ELSE ErrorExtractingTitle)
    ELSE IF Truthy(p.clean_title) THEN clean_title_suffix(p.clean_title) ELSE NoTitleFound

\* extract_article_details_playwright(url, page, timeout)
extract_article_details_playwright(url, p) ==
    IF p.goto = "timeout"
    THEN \* the outer except: page.goto raised
         [ resolved_url |-> None, image_url |-> NoImagePlaceholder, title |-> None,
           description |-> None, error |-> "Timeout exceeded" ]
    ELSE IF (IsGoogleNews(url) \/ IsGoogleNews(p.after_goto)) /\ Contains(url, "articles/")
              /\ IsGoogleNews(p.after_wait)
         THEN IF p.gn_raises
              THEN [ resolved_url |-> url, image_url |-> GnErrorPlaceholder,
                     title |-> "Google News Processing Error",
                     description |-> "Error processing Google News URL: selector failed",
                     error |-> "Google News error: selector failed" ]
              ELSE IF p.gn_links = <<>>
              THEN [ resolved_url |-> url, image_url |-> GnFailedPlaceholder,
                     title |-> "Google News Redirect Failed",
                     description |-> GnFailedDescription,
                     error |-> "Google News redirect failed" ]
              ELSE [ resolved_url |-> p.after_link, image_url |-> p.image,
                     title |-> extract_clean_title(p), description |-> p.description ]
         ELSE [ resolved_url |-> IF (IsGoogleNews(url) \/ IsGoogleNews(p.after_goto))
                                     /\ Contains(url, "articles/")
                                 THEN p.after_wait ELSE p.after_goto,
                image_url |-> p.image, title |-> extract_clean_title(p),
                description |-> p.description ]

\* generate_article_id(url, title, source)
generate_article_id(url, title, source) == MD5(url \o "|" \o title \o "|" \o source)

\* the normally assembled article of process_single_article_playwright; its
\* 'key_points' field, a function of description and title alone, is left out
AssembledArticle(article, article_details) ==
    LET final_title == IF Truthy(article_details.title) THEN article_details.title
                       ELSE article.title
    IN  [ id           |-> generate_article_id(article.link, final_title, article.source),
          title        |-> final_title,
          source       |-> article.source,
          url          |-> IF Truthy(article_details.resolved_url)
                           THEN article_details.resolved_url ELSE article.link,
          image_url    |-> article_details.image_url,
          description  |-> article_details.description,
          published    |-> article.published,
          content_hash |-> IF Truthy(article_details.description)
                           THEN MD5(Prefix(article_details.description, ContentHashLen))
                           ELSE None ]

\* input_title[:50] of the debug message raises TypeError for a title that is
\* None, and the same expression in the except clause raises again: the
\* exception leaves process_single_article_playwright
ProcessRaises(article) == Truthy(article.link) /\ article.title = None

\* process_single_article_playwright(article, page, timeout)
process_single_article_playwright(article) ==
    IF ~Truthy(article.link)
    THEN [ id |-> "no-url", title |-> article.title, source |-> article.source,
           url |-> "", image_url |-> NoUrlPlaceholder,
           published |-> article.published, error |-> "No URL provided" ]
    ELSE IF article.page.raises
    THEN [ id |-> "error", title |-> article.title, source |-> article.source,
           url |-> article.link, image_url |-> ErrorPlaceholder,
           published |-> article.published, error |-> "exception" ]
    ELSE AssembledArticle(article, extract_article_details_playwright(article.link, article.page))

\* result.get('description')
GetDescription(result) ==
    IF "description" \in DOMAIN result THEN result.description ELSE None

\* article.get('content_hash')
GetContentHash(result) ==
    IF "content_hash" \in DOMAIN result THEN result.content_hash ELSE None

\* a duplicate test that never finds a duplicate
is_duplicate_content_Never(content, existing_articles) == FALSE

\* is_duplicate_content(content, existing_articles)
is_duplicate_content(content, existing_articles) ==
    LET content_hash == MD5(Prefix(content, ContentHashLen))
    IN  \E k \in 1..Len(existing_articles) :
            GetContentHash(existing_articles[k]) = content_hash

\* the 'continue' of the loop body
SkippedAsDuplicate(result, existing_articles) ==
    /\ "error" \notin DOMAIN result
    /\ Truthy(GetDescription(result))
    /\ is_duplicate_content(result.description, existing_articles)

\* news_data['articles'][:max_articles]
ArticlesToProcess ==
    IF news_data.has_articles
    THEN SubSeq(news_data.articles, 1, Min(max_articles, Len(news_data.articles)))
    ELSE <<>>

NoOutput == [metadata |-> [total_articles |-> 0], articles |-> <<>>, written |-> FALSE]

\* Raw feed entries of an input file together with what the browser meets at
\* each link
Entry(title, link, source, published, p) ==
    [title |-> title, link |-> link, source |-> source, published |-> published, page |-> p]

DescMetro == "The new metro line opened on Monday and carried two lakh passengers on its first day."
DescRain == "Heavy rain flooded several underpasses in the city and traffic was diverted for hours."

ArticlePage(url, clean_title, image, description) ==
    Page("ok", url, url, <<>>, FALSE, clean_title, image, description, FALSE)

EntOk1 == Entry("Metro line opens", "https://site.example/news/metro", "NDTV", "p1",
                ArticlePage("https://site.example/news/metro", "Metro line opens in city | NDTV",
                            "https://cdn.example/metro.jpg", DescMetro))
EntOk2 == Entry("Rain floods city", "https://site.example/news/rain", "The Hindu", "p2",
                ArticlePage("https://site.example/news/rain", None, None, DescRain))
\* the h1 query fails on this page: the page title is used as it is
EntDup == Entry("Metro opens to public", "https://wire.example/story/metro", "PTI", "p3",
                TitleQueryRaises(ArticlePage("https://wire.example/story/metro", None,
                                             "https://cdn.example/metro2.jpg", DescMetro),
                                 "Metro opens to public - NDTV"))
EntGn1 == Entry("Court verdict today", "https://news.google.com/rss/articles/AAA", "Mint", "p4",
                Page("ok", "https://news.google.com/rss/articles/AAA",
                     "https://news.google.com/rss/articles/AAA", <<>>, FALSE, None, None, "", FALSE))
EntGn2 == Entry("Election dates out", "https://news.google.com/rss/articles/BBB", "News18", "p5",
                Page("ok", "https://news.google.com/rss/articles/BBB",
                     "https://news.google.com/rss/articles/BBB", <<>>, FALSE, None, None, "", FALSE))
EntGnOk == Entry("Budget presented", "https://news.google.com/rss/articles/CCC", "Mint", "p6",
                 Page("ok", "https://news.google.com/rss/articles/CCC",
                      "https://news.google.com/rss/articles/CCC",
                      <<"https://mint.example/news/budget.html">>, FALSE,
                      "Budget presented in parliament", "https://cdn.example/budget.jpg",
                      "The finance minister presented the budget in parliament and announced new tax slabs.", FALSE))
\* a second aggregator link to the article of EntGnOk, fetched after the page was updated
EntGnOk2 == Entry("Budget presented today", "https://news.google.com/rss/articles/DDD", "Mint", "p12",
                  RedirectedTo(
                      Page("ok", "https://news.google.com/rss/articles/DDD",
                           "https://news.google.com/rss/articles/DDD",
                           <<"http://mint.example/news/budget.html">>, FALSE,
                           "Budget presented in parliament", "https://cdn.example/budget.jpg",
                           "Updated: markets rose after the finance minister presented the budget in parliament.", FALSE),
                      "https://mint.example/news/budget.html"))
EntTimeout == Entry("Slow site story", "https://slow.example/news/1", "Slow Times", "p7",
                    Page("timeout", "", "", <<>>, FALSE, None, None, "", FALSE))
EntEmpty1 == Entry("Paywalled story", "https://pay.example/news/1", "Pay Daily", "p8",
                   ArticlePage("https://pay.example/news/1", "Paywalled story",
                               "https://cdn.example/pay.jpg", SentinelNoContent))
EntEmpty2 == Entry("Video only story", "https://video.example/news/2", "Video News", "p9",
                   TitleQueryRaises(ArticlePage("https://video.example/news/2", None, None,
                                                SentinelNoContent), ""))
EntNoUrl == Entry("Entry without link", "", "Unknown Source", "p10",
                  Page("ok", "", "", <<>>, FALSE, None, None, "", FALSE))
EntCrash == Entry("Broken entry", "https://broken.example/news/3", "Broken", "p11",
                  Page("ok", "https://broken.example/news/3", "https://broken.example/news/3",
                       <<>>, FALSE, None, None, "", TRUE))

\* feed entries whose title is null, without and with a link
EntNullTitle == Entry(None, "", "Unknown Source", "p13",
                      Page("ok", "", "", <<>>, FALSE, None, None, "", FALSE))
EntNullTitleLink == Entry(None, "https://site.example/news/untitled", "NDTV", "p14",
                          ArticlePage("https://site.example/news/untitled", "Untitled story of the day",
                                      "https://cdn.example/untitled.jpg", DescRain))

EntryList == <<EntOk1, EntOk2, EntDup, EntGn1, EntGn2, EntGnOk, EntGnOk2, EntTimeout,
               EntEmpty1, EntEmpty2, EntNoUrl, EntCrash, EntNullTitle, EntNullTitleLink>>
EntryPool == {EntryList[k] : k \in 1..Len(EntryList)}

RECURSIVE InjectiveSeqs(_, _)
\* the sequences of at most n distinct elements of S
InjectiveSeqs(S, n) ==
    IF n = 0 THEN {<<>>}
    ELSE LET shorter == InjectiveSeqs(S, n - 1)
         IN  shorter \cup
             UNION { { Append(q, e) : e \in S \ {q[i] : i \in 1..Len(q)} } :
                     q \in {r \in shorter : Len(r) = n - 1} }

RECURSIVE InListOrder(_)
\* the entries of EntryList with index in idx, in the order of the list
InListOrder(idx) ==
    IF idx = {} THEN <<>>
    ELSE LET k == CHOOSE x \in idx : \A y \in idx : x <= y
         IN  <<EntryList[k]>> \o InListOrder(idx \ {k})

\* the article lists of the model: every list of fewer than MaxBatch distinct
\* entries, and the lists of MaxBatch entries that keep the order of EntryList
ArticleLists ==
    InjectiveSeqs(EntryPool, MaxBatch - 1)
        \cup {InListOrder(idx) : idx \in {x \in SUBSET (1..Len(EntryList)) : Cardinality(x) = MaxBatch}}

\* the input files of the model: unreadable, without 'articles', or a list of
\* distinct entries (the merge step leaves no two entries with the same key)
InputFiles ==
    { [readable |-> FALSE, has_articles |-> FALSE, articles |-> <<>>],
      [readable |-> TRUE,  has_articles |-> FALSE, articles |-> <<>>] }
    \cup { [readable |-> TRUE, has_articles |-> TRUE, articles |-> q] : q \in ArticleLists }

\* main: news_data = load_news_data(args.input)
LoadNewsData ==
    /\ bpc = "load"
    /\ IF news_data.readable
       THEN bpc' = "launch" /\ UNCHANGED exit_code
       ELSE bpc' = "exited" /\ exit_code' = 1
    /\ UNCHANGED <<news_data, max_articles, bi, processed_articles, successful_articles,
                   output_data, pw, browser, page, step2_success, gate_result>>

\* process_news_data_playwright: 'articles' not in news_data, return []
NoArticlesField ==
    /\ bpc = "launch"
    /\ ~news_data.has_articles
    /\ bpc' = "save"
    /\ UNCHANGED <<news_data, max_articles, bi, processed_articles, successful_articles,
                   exit_code, output_data, pw, browser, page, step2_success, gate_result>>

\* async with async_playwright(); p.chromium.launch(); browser.new_page()
LaunchBrowser ==
    /\ bpc = "launch"
    /\ news_data.has_articles
    /\ pw' = "on" /\ browser' = "open" /\ page' = "open"
    /\ bpc' = "loop"
    /\ UNCHANGED <<news_data, max_articles, bi, processed_articles, successful_articles,
                   exit_code, output_data, step2_success, gate_result>>

\* chromium.launch raises: nothing was opened, the context manager exits and
\* main returns 1
LaunchFails ==
    /\ bpc = "launch"
    /\ news_data.has_articles
    /\ pw' = "stopped"
    /\ bpc' = "exited" /\ exit_code' = 1
    /\ UNCHANGED <<news_data, max_articles, bi, processed_articles, successful_articles,
                   output_data, browser, page, step2_success, gate_result>>

\* from playwright.async_api import async_playwright raises ImportError:
\* process_news_data_playwright returns [] and main saves it
PlaywrightMissing ==
    /\ bpc = "launch"
    /\ news_data.has_articles
    /\ bpc' = "save"
    /\ UNCHANGED <<news_data, max_articles, bi, processed_articles, successful_articles,
                   exit_code, output_data, pw, browser, page, step2_success, gate_result>>

\* page.set_viewport_size raises after new_page, before the try block: page
\* and browser stay open; the context manager exits and main returns 1
ViewportFails ==
    /\ bpc = "launch"
    /\ news_data.has_articles
    /\ pw' = "stopped" /\ browser' = "open" /\ page' = "open"
    /\ bpc' = "exited" /\ exit_code' = 1
    /\ UNCHANGED <<news_data, max_articles, bi, processed_articles, successful_articles,
                   output_data, step2_success, gate_result>>

\* browser.new_page raises after the launch, before the try block: neither
\* close is called; the context manager exits and main returns 1
NewPageFails ==
    /\ bpc = "launch"
    /\ news_data.has_articles
    /\ pw' = "stopped" /\ browser' = "open"
    /\ bpc' = "exited" /\ exit_code' = 1
    /\ UNCHANGED <<news_data, max_articles, bi, processed_articles, successful_articles,
                   output_data, page, step2_success, gate_result>>

\* one iteration of the loop of process_news_data_playwright
ProcessArticle ==
    /\ bpc = "loop"
    /\ bi < Len(ArticlesToProcess)
    /\ ~ProcessRaises(ArticlesToProcess[bi + 1])
    /\ LET result == process_single_article_playwright(ArticlesToProcess[bi + 1])
       IN  IF SkippedAsDuplicate(result, processed_articles)
           THEN UNCHANGED <<processed_articles, successful_articles>>
           ELSE /\ processed_articles' = Append(processed_articles, result)
                /\ successful_articles' =
                       IF "error" \notin DOMAIN result THEN successful_articles + 1
                       ELSE successful_articles
    /\ bi' = bi + 1
    /\ UNCHANGED <<news_data, max_articles, bpc, exit_code, output_data, pw, browser, page,
                   step2_success, gate_result>>

\* the loop is left: every article was handled, or the next one raises out of
\* process_single_article_playwright
LoopRaises == bi < Len(ArticlesToProcess) /\ ProcessRaises(ArticlesToProcess[bi + 1])
LoopLeft == bpc = "loop" /\ (bi = Len(ArticlesToProcess) \/ LoopRaises)

\* finally: await page.close(); await browser.close(); then the context manager
\* exits; an exception of the loop goes on to main, which returns 1
CloseSession ==
    /\ LoopLeft
    /\ page' = "closed" /\ browser' = "closed" /\ pw' = "stopped"
    /\ IF LoopRaises
       THEN bpc' = "exited" /\ exit_code' = 1
       ELSE bpc' = "save" /\ UNCHANGED exit_code
    /\ UNCHANGED <<news_data, max_articles, bi, processed_articles, successful_articles,
                   output_data, step2_success, gate_result>>

\* finally: browser.close() raises after page.close() returned; the context
\* manager exits and main returns 1
BrowserCloseFails ==
    /\ LoopLeft
    /\ page' = "closed" /\ pw' = "stopped"
    /\ bpc' = "exited" /\ exit_code' = 1
    /\ UNCHANGED <<news_data, max_articles, bi, processed_articles, successful_articles,
                   output_data, browser, step2_success, gate_result>>

\* finally: page.close() raises, so browser.close() is not reached; the context
\* manager exits and main returns 1
PageCloseFails ==
    /\ LoopLeft
    /\ pw' = "stopped"
    /\ bpc' = "exited" /\ exit_code' = 1
    /\ UNCHANGED <<news_data, max_articles, bi, processed_articles, successful_articles,
                   output_data, browser, page, step2_success, gate_result>>

\* main: output_data = {...}; save_to_json(output_data, args.output); return 0
SaveOutput ==
    /\ bpc = "save"
    /\ output_data' = [ metadata |-> [total_articles |-> Len(processed_articles)],
                        articles |-> processed_articles,
                        written  |-> TRUE ]
    /\ bpc' = "exited" /\ exit_code' = 0
    /\ UNCHANGED <<news_data, max_articles, bi, processed_articles, successful_articles,
                   pw, browser, page, step2_success, gate_result>>

\* main: save_to_json raises (the output cannot be written), return 1
SaveFails ==
    /\ bpc = "save"
    /\ bpc' = "exited" /\ exit_code' = 1
    /\ UNCHANGED <<news_data, max_articles, bi, processed_articles, successful_articles,
                   output_data, pw, browser, page, step2_success, gate_result>>

\* step2_extract_and_summarize_playwright: if run_command(cmd, ...): success_count += 1
RunCommandReturns ==
    /\ bpc = "exited"
    /\ step2_success' = IF exit_code = 0 THEN step2_success + 1 ELSE step2_success
    /\ bpc' = "counted"
    /\ UNCHANGED <<news_data, max_articles, bi, processed_articles, successful_articles,
                   exit_code, output_data, pw, browser, page, gate_result>>

\* article.get("title", "").strip() and the image_url expression of the gate
GateTitle(article) == IF "title" \in DOMAIN article THEN Strip(article.title) ELSE ""
GateImage(article) ==
    IF "image_url" \in DOMAIN article /\ Truthy(article.image_url)
    THEN Strip(article.image_url) ELSE ""

\* the validation of convert_inshorts_to_supabase_format
PassesGate(article) ==
    /\ GateTitle(article) # ""
    /\ GateImage(article) # ""
    /\ GateImage(article) # NoImagePlaceholder

\* the article on which convert_inshorts_to_supabase_format raises: .strip() of
\* a title or summary that is None, or of the description None of an article
\* that passed the title and image tests
GateRaises(article) ==
    \/ "title" \in DOMAIN article /\ article.title = None
    \/ "summary" \in DOMAIN article /\ article.summary = None
    \/ /\ PassesGate(article)
       /\ "description" \in DOMAIN article /\ article.description = None

ConvertRaises(articles) == \E i \in 1..Len(articles) : GateRaises(articles[i])

\* AttributeError: 'NoneType' object has no attribute 'strip'
AttributeError == [raised |-> "AttributeError"]

RECURSIVE ConvertFrom(_, _, _)
ConvertFrom(articles, i, category) ==
    IF i > Len(articles) THEN <<>>
    ELSE (IF PassesGate(articles[i])
          THEN << [ title       |-> GateTitle(articles[i]),
                    link        |-> EntryGet(articles[i], "url", ""),
                    published   |-> EntryGet(articles[i], "published", ""),
                    source      |-> EntryGet(articles[i], "source", ""),
                    category    |-> category,
                    description |-> IF Truthy(GetDescription(articles[i]))
                                       /\ Strip(articles[i].description) # ""
                                    THEN Strip(articles[i].description) ELSE None,
                    image_url   |-> GateImage(articles[i]),
                    article_id  |-> EntryGet(articles[i], "id", None),
                    quality_score |-> EntryGet(articles[i], "quality_score", 0) ] >>
          ELSE <<>>)
         \o ConvertFrom(articles, i + 1, category)

\* convert_inshorts_to_supabase_format(inshorts_data, category): the returned
\* list, or the exception it raises
convert_inshorts_to_supabase_format(inshorts_data, category) ==
    IF ConvertRaises(inshorts_data.articles) THEN AttributeError
    ELSE ConvertFrom(inshorts_data.articles, 1, category)

\* main.py main: step2_success == 0 stops the workflow with 1; otherwise step 3
\* runs push_inshorts_to_supabase.py, which converts the file that was written
UploadStep ==
    /\ bpc = "counted"
    /\ step2_success > 0
    /\ output_data.written
    /\ IF ConvertRaises(output_data.articles)
       THEN gate_result' = <<>> /\ bpc' = "upload_raised"
       ELSE /\ gate_result' = convert_inshorts_to_supabase_format(output_data, "india")
            /\ bpc' = "gated"
    /\ UNCHANGED <<news_data, max_articles, bi, processed_articles, successful_articles,
                   exit_code, output_data, pw, browser, page, step2_success>>

\* main: the 'metadata' written with the articles holds source_file,
\* generation_time, total_articles, browser_engine and performance_benefits;
\* a count of dropped entries would have to be one more field of it
RecordedDropped(metadata) ==
    IF "dropped_articles" \in DOMAIN metadata THEN metadata.dropped_articles ELSE 0

\* convert_inshorts_to_supabase_format returns supabase_articles, the list of the
\* accepted records; skipped_count is logged and not returned
RejectedInResult(result) == 0

BatchStart ==
    /\ news_data \in InputFiles
    /\ max_articles \in {MaxBatch - 1, MaxArticlesDefault}
    /\ bi = 0
    /\ processed_articles = <<>>
    /\ successful_articles = 0
    /\ bpc = "load"
    /\ exit_code = -1
    /\ output_data = NoOutput
    /\ pw = "off" /\ browser = "none" /\ page = "none"
    /\ step2_success = 0
    /\ gate_result = <<>>

BatchIdle ==
    /\ news_data = [readable |-> FALSE, has_articles |-> FALSE, articles |-> <<>>]
    /\ max_articles = MaxArticlesDefault
    /\ bi = 0
    /\ processed_articles = <<>>
    /\ successful_articles = 0
    /\ bpc = "idle"
    /\ exit_code = -1
    /\ output_data = NoOutput
    /\ pw = "off" /\ browser = "none" /\ page = "none"
    /\ step2_success = 0
    /\ gate_result = <<>>

NextBatch ==
    \/ LoadNewsData /\ UNCHANGED <<mergeVars, poolVars, contentVars, keyVars, scoreVars, mapperVars, flowVars, apiVars, bpVars>>
    \/ NoArticlesField /\ UNCHANGED <<mergeVars, poolVars, contentVars, keyVars, scoreVars, mapperVars, flowVars, apiVars, bpVars>>
    \/ LaunchBrowser /\ UNCHANGED <<mergeVars, poolVars, contentVars, keyVars, scoreVars, mapperVars, flowVars, apiVars, bpVars>>
    \/ LaunchFails /\ UNCHANGED <<mergeVars, poolVars, contentVars, keyVars, scoreVars, mapperVars, flowVars, apiVars, bpVars>>
    \/ PlaywrightMissing /\ UNCHANGED <<mergeVars, poolVars, contentVars, keyVars, scoreVars, mapperVars, flowVars, apiVars, bpVars>>
    \/ ViewportFails /\ UNCHANGED <<mergeVars, poolVars, contentVars, keyVars, scoreVars, mapperVars, flowVars, apiVars, bpVars>>
    \/ BrowserCloseFails /\ UNCHANGED <<mergeVars, poolVars, contentVars, keyVars, scoreVars, mapperVars, flowVars, apiVars, bpVars>>
    \/ NewPageFails /\ UNCHANGED <<mergeVars, poolVars, contentVars, keyVars, scoreVars, mapperVars, flowVars, apiVars, bpVars>>
    \/ ProcessArticle /\ UNCHANGED <<mergeVars, poolVars, contentVars, keyVars, scoreVars, mapperVars, flowVars, apiVars, bpVars>>
    \/ CloseSession /\ UNCHANGED <<mergeVars, poolVars, contentVars, keyVars, scoreVars, mapperVars, flowVars, apiVars, bpVars>>
    \/ PageCloseFails /\ UNCHANGED <<mergeVars, poolVars, contentVars, keyVars, scoreVars, mapperVars, flowVars, apiVars, bpVars>>
    \/ SaveOutput /\ UNCHANGED <<mergeVars, poolVars, contentVars, keyVars, scoreVars, mapperVars, flowVars, apiVars, bpVars>>
    \/ SaveFails /\ UNCHANGED <<mergeVars, poolVars, contentVars, keyVars, scoreVars, mapperVars, flowVars, apiVars, bpVars>>
    \/ RunCommandReturns /\ UNCHANGED <<mergeVars, poolVars, contentVars, keyVars, scoreVars, mapperVars, flowVars, apiVars, bpVars>>
    \/ UploadStep /\ UNCHANGED <<mergeVars, poolVars, contentVars, keyVars, scoreVars, mapperVars, flowVars, apiVars, bpVars>>

-----------------------------------------------------------------------------
(* scripts/generate_inshorts_playwright.py: the content extractor          *)

\* len(content.strip()) > 500 and len(cleaned_content) > 300, semantic selectors
SemanticRawMin == 500
SemanticCleanMin == 300
\* len(p_text) > 50, len(p_text.split()) > 10, p_text[-20:]
ParagraphMinLen == 50
ParagraphMinWords == 10
ParagraphTailLen == 20
\* len(' '.join(meaningful_paragraphs)) > 1200, meaningful_paragraphs[:7]
ParagraphJoinStop == 1200
ParagraphTake == 7
\* len(cleaned_paragraph_content) > 200
ParagraphCleanMin == 200
\* len(div_content.strip()) > 400 and len(cleaned_div_content) > 250
DivRawMin == 400
DivCleanMin == 250
\* len(meta_desc.strip()) > 100
MetaRawMin == 100
\* candidate['length'] > 300
SubstantialLen == 300
\* len(final_content) > 5000
MaxContentLen == 5000
\* len(description.strip()) < 50, the minimum-substance threshold
MinSubstanceLen == 50
\* \w{4,} and matching_terms >= len(title_terms) * 0.3
MinTermLen == 4
RelevanceNum == 3
RelevanceDen == 10

ErrorContent == "Error extracting article content."

\* the page as the extractor queries it:
\*   semantic    inner_text of the elements found by article_selectors, in order
\*   paragraphs  inner_text of the p elements, in document order
\*   divs        inner_text of the elements found by div_selectors, in order
\*   meta_desc   content of meta[name='description'], None without the element
\*   og_desc     content of meta[property='og:description'], None without it
\*   title       page.title()
\*   raises      page.url raises, before the first strategy
\*   title_raises  page.title() raises
\* Both calls are outside the inner try blocks, so their exception reaches the
\* outer except of the extractor.
ContentPage(semantic, paragraphs, divs, meta_desc, og_desc, title, raises, title_raises) ==
    [ semantic |-> semantic, paragraphs |-> paragraphs, divs |-> divs,
      meta_desc |-> meta_desc, og_desc |-> og_desc, title |-> title, raises |-> raises,
      title_raises |-> title_raises ]

\* re.sub(r'\s*\|\s*Latest News.*$', '', content), content with single spaces
CutLatestNews(content) ==
    LET bars == {b \in 1..Len(content) :
                    /\ Char(content, b) = "|"
                    /\ \/ OccursAt(content, "Latest News", b + 1)
                       \/ OccursAt(content, " Latest News", b + 1)}
    IN  IF bars = {} THEN content
        ELSE LET b == CHOOSE x \in bars : \A y \in bars : x <= y
                 start == IF b > 1 /\ IsSpace(Char(content, b - 1)) THEN b - 1 ELSE b
             IN  SubSeq(content, 1, start - 1)

\* [A-Z][a-z]+
IsCapitalisedWord(w) ==
    /\ Len(w) >= 2
    /\ Char(w, 1) \in UpperLetters
    /\ \A i \in 2..Len(w) : Char(w, i) \in LowerLetters

\* re.sub(r'\s*\|\s*[A-Z][a-z]+\s*$', '', content), content with single spaces
CutTrailingSection(content) ==
    LET b == RFind(content, "|")
    IN  IF b # 0 /\ IsCapitalisedWord(Strip(Suffix(content, b + 1)))
        THEN SubSeq(content, 1, (IF b > 1 /\ IsSpace(Char(content, b - 1)) THEN b - 1 ELSE b) - 1)
        ELSE content

DatelinePrefixes == <<"Updated", "Published", "Last updated", "Posted">>

\* re.sub(r'^(Updated|Published|Last updated|Posted):\s*[^.]*\.\s*', '', content)
CutDateline(content) ==
    LET hits == {k \in 1..Len(DatelinePrefixes) : StartsWith(content, DatelinePrefixes[k] \o ":")}
    IN  IF hits = {} THEN content
        ELSE LET k == CHOOSE x \in hits : TRUE
                 dot == FirstSub(content, ".", Len(DatelinePrefixes[k]) + 2, Len(content))
             IN  IF dot = 0 THEN content ELSE LStrip(Suffix(content, dot + 1))

ReadMorePhrases == <<"read more", "continue reading", "view full article">>

\* re.sub(r'\s*(Read more|Continue reading|View full article).*$', '', content,
\*        flags=re.IGNORECASE), content with single spaces
CutReadMore(content) ==
    LET lower == Lower(content)
        at == {Find(lower, ReadMorePhrases[k]) : k \in 1..Len(ReadMorePhrases)} \ {0}
    IN  IF at = {} THEN content
        ELSE LET p == CHOOSE x \in at : \A y \in at : x <= y
                 start == IF p > 1 /\ IsSpace(Char(content, p - 1)) THEN p - 1 ELSE p
             IN  SubSeq(content, 1, start - 1)

\* _clean_content(content)
_clean_content(content) ==
    IF content = "" THEN ""
    ELSE Strip(CutReadMore(CutDateline(CutTrailingSection(CutLatestNews(CollapseSpaces(content))))))

Candidate(content, source) == [content |-> content, source |-> source, length |-> Len(content)]

\* best_content = None
NoCandidate == [content |-> "", source |-> "none", length |-> 0]

RECURSIVE SemanticFrom(_, _)
\* Strategy 1: the elements found by the semantic selectors
SemanticFrom(texts, i) ==
    IF i > Len(texts) THEN <<>>
    ELSE LET cleaned_content == _clean_content(Strip(texts[i]))
         IN  (IF Len(Strip(texts[i])) > SemanticRawMin
                 /\ Len(cleaned_content) > SemanticCleanMin
              THEN <<Candidate(cleaned_content, "semantic_selector")>>
              ELSE <<>>)
             \o SemanticFrom(texts, i + 1)

skip_words ==
    {"subscribe", "sign in", "newsletter", "follow us", "share this",
     "advertisement", "sponsored", "cookie", "privacy policy",
     "terms of service", "read more", "click here", "related articles",
     "also read", "trending now", "breaking news", "live updates",
     "watch video", "photo gallery", "you may like", "recommended",
     "sponsored content", "latest news", "more news", "top stories",
     "view all", "see more", "load more", "show more", "continue reading"}

\* the filter of Strategy 2 on one stripped paragraph
MeaningfulParagraph(p_text) ==
    /\ Len(p_text) > ParagraphMinLen
    /\ \A w \in skip_words : ~Contains(Lower(p_text), w)
    /\ ~IsUpper(p_text)
    /\ ~AllCharsIn(p_text, UpperLetters \cup {" ", "\t", "\n"})
    /\ ~AllCharsIn(p_text, Digits \cup {" ", "\t", "\n", "-", "|", ":"})
    /\ \A k \in 1..Len(DatelinePrefixes) : ~StartsWith(p_text, DatelinePrefixes[k])
    /\ ~Contains(Last(p_text, ParagraphTailLen), "|")
    /\ WordCount(p_text) > ParagraphMinWords

RECURSIVE MeaningfulFrom(_, _, _)
\* the loop over the p elements, with its break
MeaningfulFrom(paragraphs, i, meaningful_paragraphs) ==
    IF i > Len(paragraphs) THEN meaningful_paragraphs
    ELSE IF MeaningfulParagraph(Strip(paragraphs[i]))
         THEN LET more == Append(meaningful_paragraphs, Strip(paragraphs[i]))
              IN  IF Len(Join(more, " ")) > ParagraphJoinStop THEN more
                  ELSE MeaningfulFrom(paragraphs, i + 1, more)
         ELSE MeaningfulFrom(paragraphs, i + 1, meaningful_paragraphs)

\* Strategy 2: the meaningful paragraphs
ParagraphCandidates(paragraphs) ==
    LET meaningful_paragraphs == MeaningfulFrom(paragraphs, 1, <<>>)
        cleaned == _clean_content(Join(SubSeq(meaningful_paragraphs, 1,
                                              Min(ParagraphTake, Len(meaningful_paragraphs))), " "))
    IN  IF meaningful_paragraphs # <<>> /\ Len(cleaned) > ParagraphCleanMin
        THEN <<Candidate(cleaned, "meaningful_paragraphs")>>
        ELSE <<>>

RECURSIVE DivFrom(_, _)
\* Strategy 3: the elements found by the div selectors
DivFrom(texts, i) ==
    IF i > Len(texts) THEN <<>>
    ELSE LET cleaned_div_content == _clean_content(Strip(texts[i]))
         IN  (IF Len(Strip(texts[i])) > DivRawMin
                 /\ Len(cleaned_div_content) > DivCleanMin
              THEN <<Candidate(cleaned_div_content, "div_selector")>>
              ELSE <<>>)
             \o DivFrom(texts, i + 1)

\* Strategies 4 and 5: a meta description longer than 100 characters is taken as
\* it comes out of _clean_content
MetaCandidate(desc, source) ==
    IF Truthy(desc) /\ Len(Strip(desc)) > MetaRawMin
    THEN <<Candidate(_clean_content(Strip(desc)), source)>>
    ELSE <<>>

\* content_candidates before it is sorted
CollectedCandidates(p) ==
    SemanticFrom(p.semantic, 1) \o ParagraphCandidates(p.paragraphs) \o DivFrom(p.divs, 1)
        \o MetaCandidate(p.meta_desc, "meta_description")
        \o MetaCandidate(p.og_desc, "og_description")

RECURSIVE InsertByLength(_, _)
InsertByLength(sorted, c) ==
    IF sorted = <<>> THEN <<c>>
    ELSE IF Head(sorted).length >= c.length
         THEN <<Head(sorted)>> \o InsertByLength(Tail(sorted), c)
         ELSE <<c>> \o sorted

RECURSIVE SortFrom(_, _, _)
SortFrom(candidates, i, sorted) ==
    IF i > Len(candidates) THEN sorted
    ELSE SortFrom(candidates, i + 1, InsertByLength(sorted, candidates[i]))

\* content_candidates.sort(key=lambda x: x['length'], reverse=True): stable
SortByLength(candidates) == SortFrom(candidates, 1, <<>>)

\* re.findall(r'\b\w{4,}\b', title.lower()) as a set: the maximal runs of word
\* characters that are at least 4 long
TitleTerms(title) ==
    LET t == Lower(title)
        starts == {i \in 1..Len(t) :
                      IsWordChar(Char(t, i)) /\ (i = 1 \/ ~IsWordChar(Char(t, i - 1)))}
        EndOf(i) == CHOOSE j \in i..Len(t) :
                        /\ \A k \in i..j : IsWordChar(Char(t, k))
                        /\ (j = Len(t) \/ ~IsWordChar(Char(t, j + 1)))
    IN  {SubSeq(t, i, EndOf(i)) : i \in {x \in starts : EndOf(x) - x + 1 >= MinTermLen}}

\* validate_content_relevance(content, title)
validate_content_relevance(content, title) ==
    IF content = "" \/ title = "" THEN FALSE
    ELSE LET title_terms == TitleTerms(title)
             content_lower == Lower(content)
             matching_terms == Cardinality({term \in title_terms : Contains(content_lower, term)})
         IN  matching_terms * RelevanceDen >= Cardinality(title_terms) * RelevanceNum

\* the first element of the sorted candidates that satisfies the test of one loop
FirstIndexWhere(flags) ==
    IF \E i \in 1..Len(flags) : flags[i]
    THEN CHOOSE i \in 1..Len(flags) : flags[i] /\ \A j \in 1..(i - 1) : ~flags[j]
    ELSE 0

\* a selection that takes the longest title-relevant candidate whatever its length
SelectBest_AnyRelevant(sorted, page_title) ==
    LET relevant == FirstIndexWhere([i \in 1..Len(sorted) |->
                        validate_content_relevance(sorted[i].content, page_title)])
    IN  IF relevant # 0 THEN sorted[relevant] ELSE sorted[1]

\* the selection of best_content among the sorted candidates (not empty)
SelectBest(sorted, page_title) ==
    LET relevant == FirstIndexWhere([i \in 1..Len(sorted) |->
                        validate_content_relevance(sorted[i].content, page_title)
                        /\ sorted[i].length > SubstantialLen])
        substantial == FirstIndexWhere([i \in 1..Len(sorted) |->
                        sorted[i].length > SubstantialLen])
    IN  IF relevant # 0 THEN sorted[relevant]
        ELSE IF substantial # 0 THEN sorted[substantial]
        ELSE sorted[1]

\* the length cap on final_content; the candidates are cleaned texts, with
\* single spaces between the words
LimitLength(content) ==
    IF Len(content) > MaxContentLen
    THEN LET head == SubSeq(content, 1, MaxContentLen)
             dot == RFind(head, ".")
         IN  IF dot # 0 THEN SubSeq(head, 1, dot)
             ELSE LET words == RStrip(head)
                      space == RFind(words, " ")
                  IN  SubSeq(words, 1, space - 1) \o "..."
    ELSE content

\* extract_clean_article_content(page)
extract_clean_article_content(p) ==
    IF p.raises THEN ErrorContent
    ELSE LET sorted_candidates == SortByLength(CollectedCandidates(p))
         IN  IF sorted_candidates = <<>> THEN SentinelNoContent
             ELSE IF p.title_raises THEN ErrorContent
             ELSE LimitLength(SelectBest(sorted_candidates, p.title).content)

\* Texts of the pages the extractor is run on
SentBudget == "The finance minister presented the new budget in parliament on Monday morning. "
SentRain == "Heavy rain flooded several underpasses across the city late on Tuesday evening. "
TitleBudget == "Budget 2025: Finance minister presents new tax slabs in parliament"
TitleRain == "Rain floods city"

ArticleBudget == Rep(SentBudget, 7)
ArticleRain == Rep(SentRain, 7)
\* an article element that is mostly a teaser followed by a read-more block
TeaserReadMore ==
    Rep(SentBudget, 2) \o "Read more: " \o Rep("budget tax slabs parliament finance minister ", 10)
LongBudget == Rep(Rep(SentBudget, 10), 7)
LongUnbroken == Rep(Rep("finance minister budget parliament tax slabs income relief ", 10), 9)

SemanticChoices ==
    { <<>>, <<ArticleBudget>>, <<ArticleRain>>, <<TeaserReadMore>>, <<ArticleRain, ArticleBudget>> }

ParagraphList ==
    << "The finance minister presented the new budget in parliament on Monday morning.",
       "Subscribe to our newsletter to get the latest budget coverage in your inbox every single day.",
       "  The budget raises the income tax exemption limit for salaried employees from this year.  ",
       "Opposition leaders said the finance minister ignored farmers in her long budget speech today.",
       "HOME | INDIA | WORLD | BUSINESS | SPORTS | CITIES | OPINION | VIDEOS | PHOTOS | MORE",
       "Markets closed higher after the budget as investors welcomed the lower fiscal deficit target." >>

\* the p elements of a page: the first n of ParagraphList
ParagraphChoices ==
    {SubSeq(ParagraphList, 1, Min(n, Len(ParagraphList))) : n \in 0..MaxParagraphs}

DivRain == Rep(SentRain, 6)
DivChoices == { <<>>, <<DivRain>> }

MetaGood ==
    "The finance minister presented the budget in parliament and announced new income tax slabs for salaried employees."
MetaLatestNews ==
    "Budget 2025 highlights | Latest News, Breaking News, India News, Business News and Live Updates from our newsroom"
MetaReadMore ==
    "Read more about the budget, the new income tax slabs and what the finance minister said in parliament on Monday."
MetaChoices == {None, MetaGood, MetaLatestNews, MetaReadMore}

OgRain ==
    "Heavy rain flooded several underpasses across the city on Tuesday and traffic was diverted for many hours."
OgChoices == {None, OgRain}

TitleChoices == {"", TitleBudget, TitleRain}

\* pages that exercise the strategies and the selection, pages with one very
\* long article element, and pages on which page.url or page.title() raises,
\* with two candidates, with one and with none
ContentPages ==
    { ContentPage(semantic, paragraphs, divs, meta_desc, og_desc, title, FALSE, FALSE) :
        semantic \in SemanticChoices, paragraphs \in ParagraphChoices, divs \in DivChoices,
        meta_desc \in MetaChoices, og_desc \in OgChoices, title \in {TitleBudget, TitleRain} }
    \cup { ContentPage(<<long>>, <<>>, <<>>, None, None, title, FALSE, FALSE) :
             long \in {LongBudget, LongUnbroken}, title \in TitleChoices }
    \cup { ContentPage(<<ArticleBudget>>, <<>>, <<>>, MetaGood, None, title, raises, title_raises) :
             title \in TitleChoices, raises \in BOOLEAN, title_raises \in BOOLEAN }
    \cup { ContentPage(<<>>, <<>>, divs, None, None, TitleRain, FALSE, TRUE) : divs \in DivChoices }

\* current_url = page.url.lower(): its exception reaches the outer except,
\* which returns the error text; otherwise the five strategies fill
\* content_candidates, each inside a try of its own
CollectCandidates ==
    /\ cpc = "collect"
    /\ IF content_page.raises
       THEN /\ final_content' = ErrorContent
            /\ cpc' = "returned"
            /\ UNCHANGED content_candidates
       ELSE /\ content_candidates' = CollectedCandidates(content_page)
            /\ cpc' = "select"
            /\ UNCHANGED final_content
    /\ UNCHANGED <<content_page, best_content>>

\* if content_candidates: sort, page_title = await page.title(), then choose
\* best_content. When page.title() raises the list is sorted already and no
\* candidate was chosen: the outer except returns the error text.
ChooseBest ==
    /\ cpc = "select"
    /\ content_candidates # <<>>
    /\ content_candidates' = SortByLength(content_candidates)
    /\ IF content_page.title_raises
       THEN /\ final_content' = ErrorContent
            /\ cpc' = "returned"
            /\ UNCHANGED best_content
       ELSE /\ best_content' = SelectBest(SortByLength(content_candidates), content_page.title)
            /\ cpc' = "limit"
            /\ UNCHANGED final_content
    /\ UNCHANGED content_page

\* no candidate: return "Article content could not be extracted."
NoContentFound ==
    /\ cpc = "select"
    /\ content_candidates = <<>>
    /\ final_content' = SentinelNoContent
    /\ cpc' = "returned"
    /\ UNCHANGED <<content_page, content_candidates, best_content>>

\* final_content = best_content['content'], cut to the length cap, and returned
ReturnContent ==
    /\ cpc = "limit"
    /\ final_content' = LimitLength(best_content.content)
    /\ cpc' = "returned"
    /\ UNCHANGED <<content_page, content_candidates, best_content>>

ContentStart ==
    /\ content_page \in ContentPages
    /\ content_candidates = <<>>
    /\ best_content = NoCandidate
    /\ final_content = ""
    /\ cpc = "collect"

ContentIdle ==
    /\ content_page = ContentPage(<<>>, <<>>, <<>>, None, None, "", FALSE, FALSE)
    /\ content_candidates = <<>>
    /\ best_content = NoCandidate
    /\ final_content = ""
    /\ cpc = "idle"

NextContent ==
    \/ CollectCandidates /\ UNCHANGED <<mergeVars, batchVars, poolVars, keyVars, scoreVars, mapperVars, flowVars, apiVars, bpVars>>
    \/ ChooseBest /\ UNCHANGED <<mergeVars, batchVars, poolVars, keyVars, scoreVars, mapperVars, flowVars, apiVars, bpVars>>
    \/ NoContentFound /\ UNCHANGED <<mergeVars, batchVars, poolVars, keyVars, scoreVars, mapperVars, flowVars, apiVars, bpVars>>
    \/ ReturnContent /\ UNCHANGED <<mergeVars, batchVars, poolVars, keyVars, scoreVars, mapperVars, flowVars, apiVars, bpVars>>

-----------------------------------------------------------------------------
(* scripts/generate_inshorts_playwright.py: generate_key_points            *)

\* len(s.strip()) > 20, len(sentence) < 30 and len(sentence) > 30
SentenceMinLen == 20
KeyPointMinLen == 30
\* sentences[:5] and key_points[:5]
MaxKeyPoints == 5
\* len(sentences) < 2
MinSentences == 2
\* len(key_points) < 3 and the two further sentences
FewKeyPoints == 3
ExtraSentences == 2

Terminators == {".", "!", "?"}

RECURSIVE SkipTerminators(_, _)
SkipTerminators(text, j) ==
    IF j <= Len(text) /\ Char(text, j) \in Terminators THEN SkipTerminators(text, j + 1) ELSE j

RECURSIVE SplitSentencesFrom(_, _)
SplitSentencesFrom(text, i) ==
    LET ends == {k \in i..Len(text) : Char(text, k) \in Terminators}
    IN  IF ends = {} THEN <<Suffix(text, i)>>
        ELSE LET j == CHOOSE x \in ends : \A y \in ends : x <= y
             IN  <<SubSeq(text, i, j - 1)>> \o SplitSentencesFrom(text, SkipTerminators(text, j))

\* re.split(r'[.!?]+', text)
SplitSentences(text) == SplitSentencesFrom(text, 1)

RECURSIVE LongSentencesFrom(_, _)
\* [s.strip() for s in sentences if len(s.strip()) > 20]
LongSentencesFrom(parts, i) ==
    IF i > Len(parts) THEN <<>>
    ELSE (IF Len(Strip(parts[i])) > SentenceMinLen THEN <<Strip(parts[i])>> ELSE <<>>)
         \o LongSentencesFrom(parts, i + 1)

ui_patterns ==
    {"show quick read", "ai-generated", "newsroom-reviewed", "did our ai",
     "switch to beeps", "read time:", "share twitter", "whatsapp facebook",
     "reported by:", "published on", "last updated", "subscribe", "newsletter",
     "follow us", "click here", "read more", "view full article", "continue reading",
     "related articles", "trending now", "breaking news updates", "live updates",
     "photo gallery", "watch video", "also read", "you may like", "recommended",
     "epaper", "bizzbuzz", "hmtv live", "hans app", "latest news", "menu",
     "trending :", "home >", "entertainment", "photo stories", "sports",
     "editorial", "technology", "lifestyle", "education & careers", "business",
     "hyderabad", "cricket", "delhi region", "karnataka", "telangana",
     "andhra pradesh", "visakhapatnam", "festival of democracy",
     "email article", "print article", "telegram", "click here to join",
     "stay updated", "more stories", "advertisement", "advertise with us",
     "terms & conditions", "privacy policy", "disclaimer", "sitemap",
     "all rights reserved", "powered by", "contact us", "about us",
     "subscriber terms", "company", "media house limited",
     "news > state >", "home > news >", "state > karnataka >",
     "news service |", "am ist", "pm ist", "representational image"}

\* \d{n} at index i of s
DigitsAt(s, i, n) == i + n - 1 <= Len(s) /\ \A k \in i..(i + n - 1) : Char(s, k) \in Digits

RECURSIVE SkipSpaces(_, _)
SkipSpaces(s, j) == IF j <= Len(s) /\ IsSpace(Char(s, j)) THEN SkipSpaces(s, j + 1) ELSE j

\* \s+\d{1,2}:\d{2}\s+(am|pm) at index j of s
ClockAt(s, j) ==
    LET h == SkipSpaces(s, j)
    IN  /\ h > j
        /\ \E n \in {1, 2} :
              /\ DigitsAt(s, h, n)
              /\ OccursAt(s, ":", h + n)
              /\ DigitsAt(s, h + n + 1, 2)
              /\ LET m == SkipSpaces(s, h + n + 3)
                 IN  m > h + n + 3 /\ (OccursAt(s, "am", m) \/ OccursAt(s, "pm", m))

\* re.match(r'.*\d{4}\s+\d{1,2}:\d{2}\s+(am|pm)', s), s without line breaks
LooksLikeTimestamp(s) == \E i \in 1..Len(s) : DigitsAt(s, i, 4) /\ ClockAt(s, i + 4)

\* re.match(r'.*(published|updated|reported).*\d{4}', s), s without line breaks
LooksLikePublicationInfo(s) ==
    \E w \in {"published", "updated", "reported"} :
        \E i \in 1..Len(s) :
            /\ OccursAt(s, w, i)
            /\ \E k \in (i + Len(w))..Len(s) : DigitsAt(s, k, 4)

\* the sentence passes the filter of website text and metadata
IsContentSentence(sentence) ==
    LET sentence_lower == Lower(sentence)
    IN  /\ \A pattern \in ui_patterns : ~Contains(sentence_lower, pattern)
        /\ ~LooksLikeTimestamp(sentence_lower)
        /\ ~LooksLikePublicationInfo(sentence_lower)
        /\ \A p \in {"share ", "follow ", "subscribe "} : ~StartsWith(sentence_lower, p)

RECURSIVE FilteredFrom(_, _)
FilteredFrom(sentences, i) ==
    IF i > Len(sentences) THEN <<>>
    ELSE (IF IsContentSentence(sentences[i]) THEN <<sentences[i]>> ELSE <<>>)
         \o FilteredFrom(sentences, i + 1)

\* the sentences of the description after both filters
FilteredSentences(description) ==
    FilteredFrom(LongSentencesFrom(SplitSentences(Strip(description)), 1), 1)

\* sentence.strip() with a full stop added unless it ends with . ! or ?
Punctuated(sentence) ==
    LET t == Strip(sentence)
    IN  IF \E c \in Terminators : EndsWith(t, c) THEN t ELSE t \o "."

RECURSIVE FirstPassFrom(_, _)
\* for i, sentence in enumerate(sentences[:5]): skip the ones shorter than 30
FirstPassFrom(sentences, i) ==
    IF i > Min(MaxKeyPoints, Len(sentences)) THEN <<>>
    ELSE (IF Len(sentences[i]) < KeyPointMinLen THEN <<>> ELSE <<Punctuated(sentences[i])>>)
         \o FirstPassFrom(sentences, i + 1)

RECURSIVE ExtraFrom(_, _, _)
ExtraFrom(sentences, i, last) ==
    IF i > Min(last, Len(sentences)) THEN <<>>
    ELSE (IF Len(sentences[i]) > KeyPointMinLen THEN <<Punctuated(sentences[i])>> ELSE <<>>)
         \o ExtraFrom(sentences, i + 1, last)

\* if len(key_points) < 3 and len(sentences) > len(key_points):
\*     remaining_sentences = sentences[len(key_points):len(key_points)+2]
SecondPass(sentences, key_points_so_far) ==
    IF Len(key_points_so_far) < FewKeyPoints /\ Len(sentences) > Len(key_points_so_far)
    THEN key_points_so_far
           \o ExtraFrom(sentences, Len(key_points_so_far) + 1,
                        Len(key_points_so_far) + ExtraSentences)
    ELSE key_points_so_far

\* generate_key_points(description, title)
generate_key_points(description) ==
    IF ~Truthy(description) \/ Len(Strip(description)) < MinSubstanceLen THEN <<>>
    ELSE LET sentences == FilteredSentences(description)
         IN  IF Len(sentences) < MinSentences THEN <<>>
             ELSE LET all == SecondPass(sentences, FirstPassFrom(sentences, 1))
                  IN  SubSeq(all, 1, Min(MaxKeyPoints, Len(all)))

\* Sentences of the descriptions the function is run on
KpShort == "Tax slabs were revised again"
KpMinister == "The finance minister presented the budget in parliament on Monday"
KpMarkets == "Markets closed higher after investors welcomed the lower deficit target"
KpFarmers == "Opposition leaders said the speech ignored farmers and small traders"
KpWebsite == "Subscribe to our newsletter for daily coverage of the budget"
KpStamp == "The story was filed on 12 May 2025 10:30 am by our reporter"
KpTiny == "More to follow"

SentencePool == {KpShort, KpMinister, KpMarkets, KpFarmers, KpWebsite, KpStamp, KpTiny}

\* a description with more long sentences than key points are returned
KpLongDescription ==
    "The finance minister presented the budget in parliament on Monday. "
    \o "Markets closed higher after investors welcomed the lower deficit target! "
    \o "Opposition leaders said the speech ignored farmers and small traders. "
    \o "The income tax exemption limit was raised for salaried employees. "
    \o "Spending on roads and railways will rise by a tenth next year?! "
    \o "State governments will receive a larger share of central taxes. "
    \o "The fiscal deficit target for the coming year was lowered slightly."

\* the descriptions of the model: None, and up to MaxSentences distinct
\* sentences of the pool, each followed by a full stop
Descriptions ==
    {None, KpLongDescription, "  " \o KpLongDescription \o "  "}
    \cup {Join(q, ". ") \o (IF q = <<>> THEN "" ELSE ".") :
             q \in InjectiveSeqs(SentencePool, MaxSentences)}

\* if not description or len(description.strip()) < 50: return []
TooShortForKeyPoints ==
    /\ kpc = "check"
    /\ ~Truthy(kp_description) \/ Len(Strip(kp_description)) < MinSubstanceLen
    /\ key_points' = <<>>
    /\ kpc' = "returned"
    /\ UNCHANGED <<kp_description, kp_sentences>>

\* the sentences are split and filtered
FilterSentences ==
    /\ kpc = "check"
    /\ Truthy(kp_description) /\ Len(Strip(kp_description)) >= MinSubstanceLen
    /\ kp_sentences' = FilteredSentences(kp_description)
    /\ kpc' = "filtered"
    /\ UNCHANGED <<kp_description, key_points>>

\* if len(sentences) < 2: return []
TooFewSentences ==
    /\ kpc = "filtered"
    /\ Len(kp_sentences) < MinSentences
    /\ key_points' = <<>>
    /\ kpc' = "returned"
    /\ UNCHANGED <<kp_description, kp_sentences>>

\* the loop over sentences[:5]
FirstPass ==
    /\ kpc = "filtered"
    /\ Len(kp_sentences) >= MinSentences
    /\ key_points' = FirstPassFrom(kp_sentences, 1)
    /\ kpc' = "first"
    /\ UNCHANGED <<kp_description, kp_sentences>>

\* the second pass and return key_points[:5]
ReturnKeyPoints ==
    /\ kpc = "first"
    /\ LET all == SecondPass(kp_sentences, key_points)
       IN  key_points' = SubSeq(all, 1, Min(MaxKeyPoints, Len(all)))
    /\ kpc' = "returned"
    /\ UNCHANGED <<kp_description, kp_sentences>>

KeyPointsStart ==
    /\ kp_description \in Descriptions
    /\ kp_sentences = <<>>
    /\ key_points = <<>>
    /\ kpc = "check"

KeyPointsIdle ==
    /\ kp_description = None
    /\ kp_sentences = <<>>
    /\ key_points = <<>>
    /\ kpc = "idle"

NextKeyPoints ==
    \/ TooShortForKeyPoints /\ UNCHANGED <<mergeVars, batchVars, poolVars, contentVars, scoreVars, mapperVars, flowVars, apiVars, bpVars>>
    \/ FilterSentences /\ UNCHANGED <<mergeVars, batchVars, poolVars, contentVars, scoreVars, mapperVars, flowVars, apiVars, bpVars>>
    \/ TooFewSentences /\ UNCHANGED <<mergeVars, batchVars, poolVars, contentVars, scoreVars, mapperVars, flowVars, apiVars, bpVars>>
    \/ FirstPass /\ UNCHANGED <<mergeVars, batchVars, poolVars, contentVars, scoreVars, mapperVars, flowVars, apiVars, bpVars>>
    \/ ReturnKeyPoints /\ UNCHANGED <<mergeVars, batchVars, poolVars, contentVars, scoreVars, mapperVars, flowVars, apiVars, bpVars>>

-----------------------------------------------------------------------------
(* app/scoring.py: calculate_content_quality_score                         *)
(* The function computes in floating point; the model keeps the score in   *)
(* tenths of a point, so that the multiplier 1.2 is the integer 12.        *)

indian_keywords ==
    {"india", "indian", "delhi", "mumbai", "bengaluru", "bangalore", "chennai",
     "hyderabad", "pune", "kolkata", "ahmedabad", "surat", "jaipur", "lucknow",
     "kanpur", "nagpur", "indore", "thane", "bhopal", "visakhapatnam", "pimpri",
     "patna", "vadodara", "ludhiana", "agra", "nashik", "faridabad", "meerut",
     "rajkot", "kalyan", "vasai", "varanasi", "srinagar", "aurangabad", "dhanbad",
     "amritsar", "navi mumbai", "allahabad", "ranchi", "howrah", "coimbatore",
     "jabalpur", "gwalior", "vijayawada", "jodhpur", "madurai", "raipur", "kota",
     "guwahati", "chandigarh", "modi", "bjp", "congress", "parliament", "lok sabha",
     "rajya sabha", "supreme court", "high court", "cbi", "ed", "rbi", "sebi",
     "isro", "drdo", "iit", "iim", "upsc", "neet", "jee", "cbse", "icse",
     "bollywood", "tollywood", "kollywood", "ipl", "bcci", "cricket", "hockey",
     "kabaddi", "badminton", "wrestling", "boxing", "shooting", "archery",
     "rupee", "nse", "bse", "sensex", "nifty", "lic", "sbi", "hdfc", "icici",
     "tata", "reliance", "adani", "ambani", "ratan tata", "mukesh ambani"}

breaking_keywords == {"breaking", "urgent", "alert", "live", "developing", "just in", "flash"}

political_keywords ==
    {"election", "vote", "government", "minister", "parliament", "policy", "law", "court", "judge"}

social_keywords ==
    {"viral", "trending", "social media", "twitter", "facebook", "instagram", "youtube"}

trusted_sources ==
    {"bbc", "reuters", "ap", "ndtv", "times of india", "hindu", "indian express", "hindustan times"}

freshness_words == {"today", "yesterday", "latest", "new", "recent"}

update_words == {"update", "report", "announce", "reveal"}

\* tenths of a point in one point
Tenths == 10
\* source_multiplier 1.0 and 1.2, in tenths
PlainMultiplier == 10
TrustedMultiplier == 12
\* min(final_score, 1000.0)
MaxScore == 1000
RegionalBoost == 50
BreakingScore == 900
PoliticalScore == 700
SocialScore == 500

\* any(keyword in text for keyword in keywords)
AnyIn(keywords, text) == \E keyword \in keywords : Contains(text, keyword)

\* all_text = f"{title} {description}".lower()
AllText(title, description) == Lower(title \o " " \o description)

regional_boost(all_text) == IF AnyIn(indian_keywords, all_text) THEN RegionalBoost ELSE 0

breaking_score(all_text) == IF AnyIn(breaking_keywords, all_text) THEN BreakingScore ELSE 0

political_score(all_text) == IF AnyIn(political_keywords, all_text) THEN PoliticalScore ELSE 0

social_score(all_text) == IF AnyIn(social_keywords, all_text) THEN SocialScore ELSE 0

source_multiplier(source) ==
    IF AnyIn(trusted_sources, Lower(source)) THEN TrustedMultiplier ELSE PlainMultiplier

base_score(title, image_url, description, all_text) ==
      (IF title = "" THEN 0
       ELSE IF Len(title) > 50 THEN 80
       ELSE IF Len(title) > 30 THEN 60
       ELSE 20)
    + (IF description = "" THEN 0
       ELSE IF Len(description) > 500 THEN 120
       ELSE IF Len(description) > 200 THEN 80
       ELSE 40)
    + (IF image_url = "" THEN 0
       ELSE IF Contains(Lower(image_url), "cdn") THEN 60
       ELSE 40)
    + (IF AnyIn(freshness_words, all_text) THEN 40 ELSE 0)
    + (IF AnyIn(update_words, all_text) THEN 20 ELSE 0)

\* importance_score = max(breaking_score, political_score, social_score)
importance_score(all_text) ==
    Max(breaking_score(all_text), Max(political_score(all_text), social_score(all_text)))

\* final_score = (importance_score + base_score + regional_boost) * source_multiplier, in tenths
final_score(title, image_url, description, source) ==
    LET all_text == AllText(title, description)
    IN  (importance_score(all_text) + base_score(title, image_url, description, all_text)
           + regional_boost(all_text)) * source_multiplier(source)

\* the function without the cap of its return statement
calculate_content_quality_score_Uncapped(title, image_url, description, source) ==
    final_score(title, image_url, description, source)

\* calculate_content_quality_score: return min(final_score, 1000.0), in tenths
calculate_content_quality_score(title, image_url, description, source) ==
    Min(final_score(title, image_url, description, source), MaxScore * Tenths)

\* Inputs of the scoring function
ScoreTitles ==
    {"",
     "Lok Sabha live session begins",
     "Rain floods streets",
     "Viral video of a dancing traffic officer draws crowds",
     "Breaking: parliament passes budget today after Lok Sabha vote, minister to announce new tax"}

ScoreSentence == "The finance minister presented the budget in parliament today, a new report said. "

ScoreDescriptions ==
    {"",
     "Water entered homes after the river rose overnight.",
     Rep(ScoreSentence, 7)}

ScoreImages == {"", "https://cdn.example.com/a.jpg", "https://example.com/a.jpg"}

ScoreSources == {"Mint", "NDTV"}

ScoreArticle(title, image_url, description, source) ==
    [title |-> title, image_url |-> image_url, description |-> description, source |-> source]

\* the articles the function is run on: every combination with a short
\* description, and the long description with the longest title
ScoreArticles ==
    {ScoreArticle(t, i, d, s) :
        t \in ScoreTitles, i \in ScoreImages, d \in {d \in ScoreDescriptions : Len(d) <= 200},
        s \in ScoreSources}
    \cup {ScoreArticle(t, i, d, s) :
        t \in {t \in ScoreTitles : Len(t) > 50}, i \in ScoreImages,
        d \in {d \in ScoreDescriptions : Len(d) > 200}, s \in ScoreSources}

\* the longest prefix of words looked at when a word is inserted
MaxInsertAt == 2

RECURSIVE NthSpace(_, _, _)
\* index of the n-th space of text at or after index i, 0 when there is none
NthSpace(text, i, n) ==
    LET spaces == {k \in i..Len(text) : Char(text, k) = " "}
    IN  IF spaces = {} THEN 0
        ELSE LET j == CHOOSE x \in spaces : \A y \in spaces : x <= y
             IN  IF n = 1 THEN j ELSE NthSpace(text, j + 1, n - 1)

\* text with word added as an extra word after its first n words
InsertWordAfter(text, word, n) ==
    IF text = "" THEN word
    ELSE IF n = 0 THEN word \o " " \o text
    ELSE LET j == NthSpace(text, 1, n)
         IN  IF j = 0 THEN text \o " " \o word
             ELSE SubSeq(text, 1, j) \o word \o Suffix(text, j)

\* score = calculate_content_quality_score(title, image_url, description, source)
CalculateScore ==
    /\ spc = "input"
    /\ quality_score' = calculate_content_quality_score(sc_title, sc_image_url,
                                                        sc_description, sc_source)
    /\ spc' = "scored"
    /\ UNCHANGED <<sc_title, sc_image_url, sc_description, sc_source,
                   kw_title, kw_description, kw_score>>

\* the same article with a breaking-news keyword added to its title, scored again
AddKeywordToTitle ==
    /\ spc = "scored"
    /\ \E keyword \in breaking_keywords, n \in 0..MaxInsertAt :
          /\ kw_title' = InsertWordAfter(sc_title, keyword, n)
          /\ kw_description' = sc_description
    /\ kw_score' = calculate_content_quality_score(kw_title', sc_image_url,
                                                   kw_description', sc_source)
    /\ spc' = "compared"
    /\ UNCHANGED <<sc_title, sc_image_url, sc_description, sc_source, quality_score>>

\* the same article with a breaking-news keyword added to its description, scored again
AddKeywordToDescription ==
    /\ spc = "scored"
    /\ \E keyword \in breaking_keywords, n \in 0..MaxInsertAt :
          /\ kw_title' = sc_title
          /\ kw_description' = InsertWordAfter(sc_description, keyword, n)
    /\ kw_score' = calculate_content_quality_score(kw_title', sc_image_url,
                                                   kw_description', sc_source)
    /\ spc' = "compared"
    /\ UNCHANGED <<sc_title, sc_image_url, sc_description, sc_source, quality_score>>

ScoreStart ==
    /\ \E a \in ScoreArticles :
          /\ sc_title = a.title
          /\ sc_image_url = a.image_url
          /\ sc_description = a.description
          /\ sc_source = a.source
    /\ quality_score = 0
    /\ kw_title = ""
    /\ kw_description = ""
    /\ kw_score = 0
    /\ spc = "input"

ScoreIdle ==
    /\ sc_title = ""
    /\ sc_image_url = ""
    /\ sc_description = ""
    /\ sc_source = ""
    /\ quality_score = 0
    /\ kw_title = ""
    /\ kw_description = ""
    /\ kw_score = 0
    /\ spc = "idle"

NextScore ==
    \/ CalculateScore /\ UNCHANGED <<mergeVars, batchVars, poolVars, contentVars, keyVars, mapperVars, flowVars, apiVars, bpVars>>
    \/ AddKeywordToTitle /\ UNCHANGED <<mergeVars, batchVars, poolVars, contentVars, keyVars, mapperVars, flowVars, apiVars, bpVars>>
    \/ AddKeywordToDescription /\ UNCHANGED <<mergeVars, batchVars, poolVars, contentVars, keyVars, mapperVars, flowVars, apiVars, bpVars>>

-----------------------------------------------------------------------------
(* scripts/generate_inshorts_selenium.py: main and process_news_data;      *)
(* scripts/generate_all_inshorts.py: the shared browser mode               *)

\* the callers of process_news_data.
\* "main":   main of generate_inshorts_selenium.py. Its call names
\*           args.use_cache, which parse_args never defines, so evaluating the
\*           argument list raises AttributeError before process_news_data runs.
\* "shared": main of generate_all_inshorts.py in shared browser mode with one
\*           category: process_category_with_shared_browser imports
\*           load_news_data, process_news_data and save_to_json and passes no
\*           max_workers, so the default applies.
\* "direct": an importer that does what "shared" does and passes max_workers.
Callers == {"main", "shared", "direct"}

\* def process_news_data(..., max_workers: int = 3, use_cache: bool = False)
DefaultMaxWorkers == 3

\* the values max_workers takes with each caller
WorkersOf(caller) ==
    IF caller = "shared" THEN {DefaultMaxWorkers} ELSE 1..MaxWorkers

\* what one call of process_single_article in the sequential loop does:
\* "ok" returns an article, "error" returns one with an 'error' key, "raises"
\* lets an exception out (title is None with a link: title[:50] raises in the
\* try block and again in the except clause)
ArticleOutcomes == {"ok", "error", "raises"}

\* setup_selenium(): "ok" returns a driver; "before" raises before
\* webdriver.Chrome() has created a session; "after" raises in
\* set_page_load_timeout, after webdriver.Chrome() has created the session
SetupOutcomes == {"ok", "before", "after"}

\* drivers[i % len(drivers)] for the article with 0-based index i; drivers and
\* articles are numbered from 1 here
DriverFor(k, n_drivers) == ((k - 1) % n_drivers) + 1

Running(k) == sel_tasks[k].state = "running"

NumRunning == Cardinality({k \in 1..Len(sel_tasks) : Running(k)})

\* the work queue of the ThreadPoolExecutor is first in, first out
NextQueued(k) ==
    /\ k \in 1..Len(sel_tasks)
    /\ sel_tasks[k].state = "queued"
    /\ \A j \in 1..(k - 1) : sel_tasks[j].state # "queued"

\* main: driver = setup_selenium(headless=args.headless); generate_all_inshorts:
\* driver = setup_shared_browser(headless=args.headless), which has the same
\* three outcomes
SetupMainDriver ==
    /\ sel_pc = "setup"
    /\ \E outcome \in SetupOutcomes :
          CASE outcome = "ok" ->
                 /\ sel_drivers' = <<"open">>
                 /\ sel_pc' = "load"
                 /\ UNCHANGED <<sel_leaked, sel_exit>>
            [] outcome = "before" ->
                 /\ sel_pc' = "done" /\ sel_exit' = 1
                 /\ UNCHANGED <<sel_drivers, sel_leaked>>
            [] outcome = "after" ->
                 /\ sel_leaked' = sel_leaked + 1
                 /\ sel_pc' = "done" /\ sel_exit' = 1
                 /\ UNCHANGED sel_drivers
    /\ UNCHANGED <<sel_caller, sel_has_articles, sel_workers, sel_n, sel_tasks, sel_results, sel_raised>>

\* news_data = load_news_data(...), then the call of process_news_data up to the
\* choice between the sequential loop and the pool. A load that raises, and
\* main's args.use_cache, leave through the finally that quits the driver. Inside
\* process_news_data, news_data without 'articles' returns [] at once.
LoadSelenium ==
    /\ sel_pc = "load"
    /\ \E ok \in BOOLEAN :
          IF ok /\ sel_caller # "main"
          THEN /\ sel_pc' = IF ~sel_has_articles THEN "save"
                            ELSE IF sel_workers = 1 THEN "sequential" ELSE "create"
               /\ UNCHANGED sel_raised
          ELSE /\ sel_pc' = "main_finally"
               /\ sel_raised' = TRUE
    /\ UNCHANGED <<sel_drivers, sel_leaked, sel_caller, sel_has_articles, sel_workers, sel_n,
                   sel_tasks, sel_results, sel_exit>>

\* max_workers == 1: one iteration of the sequential loop on the main driver.
\* An exception of process_single_article is caught nowhere in process_news_data:
\* nothing is appended and the exception reaches the caller.
SequentialArticle ==
    /\ sel_pc = "sequential"
    /\ Len(sel_results) < sel_n
    /\ \E outcome \in ArticleOutcomes :
          IF outcome = "raises"
          THEN /\ sel_pc' = "main_finally"
               /\ sel_raised' = TRUE
               /\ UNCHANGED sel_results
          ELSE /\ sel_results' = Append(sel_results,
                                        [ article |-> Len(sel_results) + 1, driver |-> 1,
                                          error |-> (outcome = "error") ])
               /\ UNCHANGED <<sel_pc, sel_raised>>
    /\ UNCHANGED <<sel_drivers, sel_leaked, sel_caller, sel_has_articles, sel_workers, sel_n,
                   sel_tasks, sel_exit>>

SequentialDone ==
    /\ sel_pc = "sequential"
    /\ Len(sel_results) = sel_n
    /\ sel_pc' = "save"
    /\ UNCHANGED <<sel_drivers, sel_leaked, sel_caller, sel_has_articles, sel_workers, sel_n, sel_tasks, sel_results,
                   sel_raised, sel_exit>>

\* for i in range(max_workers - 1): drivers.append(setup_selenium(headless=True))
CreateDriver ==
    /\ sel_pc = "create"
    /\ Len(sel_drivers) < sel_workers
    /\ \E outcome \in SetupOutcomes :
          CASE outcome = "ok" ->
                 /\ sel_drivers' = Append(sel_drivers, "open")
                 /\ UNCHANGED <<sel_leaked, sel_pc, sel_raised>>
            [] outcome = "before" ->
                 /\ sel_pc' = "cleanup" /\ sel_raised' = TRUE
                 /\ UNCHANGED <<sel_drivers, sel_leaked>>
            [] outcome = "after" ->
                 /\ sel_leaked' = sel_leaked + 1
                 /\ sel_pc' = "cleanup" /\ sel_raised' = TRUE
                 /\ UNCHANGED sel_drivers
    /\ UNCHANGED <<sel_caller, sel_has_articles, sel_workers, sel_n, sel_tasks, sel_results, sel_exit>>

\* executor.submit(process_single_article, article, drivers[i % len(drivers)], ...)
SubmitArticle ==
    /\ sel_pc = "create"
    /\ Len(sel_drivers) = sel_workers
    /\ Len(sel_tasks) < sel_n
    /\ sel_tasks' = Append(sel_tasks,
                           [ state  |-> "queued",
                             driver |-> DriverFor(Len(sel_tasks) + 1, Len(sel_drivers)),
                             error  |-> FALSE ])
    /\ UNCHANGED <<sel_drivers, sel_leaked, sel_caller, sel_has_articles, sel_workers, sel_n, sel_results, sel_pc,
                   sel_raised, sel_exit>>

\* a worker thread of the executor takes the oldest queued work item
StartTask ==
    /\ sel_pc = "create"
    /\ NumRunning < sel_workers
    /\ \E k \in 1..Len(sel_tasks) :
          /\ NextQueued(k)
          /\ sel_tasks' = [sel_tasks EXCEPT ![k].state = "running"]
    /\ UNCHANGED <<sel_drivers, sel_leaked, sel_caller, sel_has_articles, sel_workers, sel_n, sel_results, sel_pc,
                   sel_raised, sel_exit>>

\* a worker thread that appends its own result to processed_articles
FinishTask_Appends ==
    /\ sel_pc = "create"
    /\ \E k \in 1..Len(sel_tasks), err \in BOOLEAN :
          /\ Running(k)
          /\ sel_tasks' = [sel_tasks EXCEPT ![k].state = "finished", ![k].error = err]
          /\ sel_results' = Append(sel_results,
                                   [article |-> k, driver |-> sel_tasks[k].driver, error |-> err])
    /\ UNCHANGED <<sel_drivers, sel_leaked, sel_caller, sel_has_articles, sel_workers, sel_n, sel_pc, sel_raised, sel_exit>>

\* process_single_article returns in its worker thread, with or without 'error',
\* or raises: the future keeps the exception and the collector turns it into an
\* error result
FinishTask ==
    /\ sel_pc = "create"
    /\ \E k \in 1..Len(sel_tasks), err \in BOOLEAN :
          /\ Running(k)
          /\ sel_tasks' = [sel_tasks EXCEPT ![k].state = "finished", ![k].error = err]
    /\ UNCHANGED <<sel_drivers, sel_leaked, sel_caller, sel_has_articles, sel_workers, sel_n, sel_results, sel_pc,
                   sel_raised, sel_exit>>

\* for future in as_completed(future_to_article): processed_articles.append(result)
CollectResult ==
    /\ sel_pc = "create"
    /\ Len(sel_drivers) = sel_workers
    /\ Len(sel_tasks) = sel_n
    /\ \E k \in 1..Len(sel_tasks) :
          /\ sel_tasks[k].state = "finished"
          /\ sel_tasks' = [sel_tasks EXCEPT ![k].state = "collected"]
          /\ sel_results' = Append(sel_results,
                                   [ article |-> k, driver |-> sel_tasks[k].driver,
                                     error |-> sel_tasks[k].error ])
    /\ UNCHANGED <<sel_drivers, sel_leaked, sel_caller, sel_has_articles, sel_workers, sel_n, sel_pc, sel_raised, sel_exit>>

\* the with block of the executor ends once every future is collected
ExecutorDone ==
    /\ sel_pc = "create"
    /\ Len(sel_drivers) = sel_workers
    /\ Len(sel_tasks) = sel_n
    /\ \A k \in 1..Len(sel_tasks) : sel_tasks[k].state = "collected"
    /\ sel_pc' = "cleanup"
    /\ UNCHANGED <<sel_drivers, sel_leaked, sel_caller, sel_has_articles, sel_workers, sel_n, sel_tasks, sel_results,
                   sel_raised, sel_exit>>

\* finally: for i in range(1, len(drivers)): try: drivers[i].quit() except: pass
CleanupDrivers ==
    /\ sel_pc = "cleanup"
    /\ \E after \in [1..Len(sel_drivers) -> {"open", "closed", "quit_failed"}] :
          /\ after[1] = sel_drivers[1]
          /\ \A d \in 2..Len(sel_drivers) : after[d] \in {"closed", "quit_failed"}
          /\ sel_drivers' = after
    /\ sel_pc' = IF sel_raised THEN "main_finally" ELSE "save"
    /\ UNCHANGED <<sel_leaked, sel_caller, sel_has_articles, sel_workers, sel_n, sel_tasks, sel_results, sel_raised, sel_exit>>

\* save_to_json(output_data, ...) of the caller
SaveSelenium ==
    /\ sel_pc = "save"
    /\ \E ok \in BOOLEAN : sel_raised' = ~ok
    /\ sel_pc' = "main_finally"
    /\ UNCHANGED <<sel_drivers, sel_leaked, sel_caller, sel_has_articles, sel_workers, sel_n, sel_tasks, sel_results, sel_exit>>

\* finally: driver.quit() of the caller. main returns 1 when an exception of
\* the try block or of quit() reaches its outer except; generate_all_inshorts
\* returns 1 when the category failed or quit() raised
MainFinally ==
    /\ sel_pc = "main_finally"
    /\ \E ok \in BOOLEAN :
          /\ sel_drivers' = [sel_drivers EXCEPT ![1] = IF ok THEN "closed" ELSE "quit_failed"]
          /\ sel_exit' = IF ok /\ ~sel_raised THEN 0 ELSE 1
    /\ sel_pc' = "done"
    /\ UNCHANGED <<sel_leaked, sel_caller, sel_has_articles, sel_workers, sel_n, sel_tasks, sel_results, sel_raised>>

PoolStart ==
    /\ sel_drivers = <<>>
    /\ sel_leaked = 0
    /\ sel_caller \in Callers
    /\ sel_has_articles \in BOOLEAN
    /\ sel_workers \in WorkersOf(sel_caller)
    /\ sel_n \in (IF sel_has_articles THEN 0..MaxPoolArticles ELSE {0})
    /\ sel_tasks = <<>>
    /\ sel_results = <<>>
    /\ sel_pc = "setup"
    /\ sel_raised = FALSE
    /\ sel_exit = -1

PoolIdle ==
    /\ sel_drivers = <<>>
    /\ sel_leaked = 0
    /\ sel_caller = "main"
    /\ sel_has_articles = TRUE
    /\ sel_workers = 1
    /\ sel_n = 0
    /\ sel_tasks = <<>>
    /\ sel_results = <<>>
    /\ sel_pc = "idle"
    /\ sel_raised = FALSE
    /\ sel_exit = -1

NextPool ==
    \/ SetupMainDriver /\ UNCHANGED <<mergeVars, batchVars, contentVars, keyVars, scoreVars, mapperVars, flowVars, apiVars, bpVars>>
    \/ LoadSelenium /\ UNCHANGED <<mergeVars, batchVars, contentVars, keyVars, scoreVars, mapperVars, flowVars, apiVars, bpVars>>
    \/ SequentialArticle /\ UNCHANGED <<mergeVars, batchVars, contentVars, keyVars, scoreVars, mapperVars, flowVars, apiVars, bpVars>>
    \/ SequentialDone /\ UNCHANGED <<mergeVars, batchVars, contentVars, keyVars, scoreVars, mapperVars, flowVars, apiVars, bpVars>>
    \/ CreateDriver /\ UNCHANGED <<mergeVars, batchVars, contentVars, keyVars, scoreVars, mapperVars, flowVars, apiVars, bpVars>>
    \/ SubmitArticle /\ UNCHANGED <<mergeVars, batchVars, contentVars, keyVars, scoreVars, mapperVars, flowVars, apiVars, bpVars>>
    \/ StartTask /\ UNCHANGED <<mergeVars, batchVars, contentVars, keyVars, scoreVars, mapperVars, flowVars, apiVars, bpVars>>
    \/ FinishTask /\ UNCHANGED <<mergeVars, batchVars, contentVars, keyVars, scoreVars, mapperVars, flowVars, apiVars, bpVars>>
    \/ CollectResult /\ UNCHANGED <<mergeVars, batchVars, contentVars, keyVars, scoreVars, mapperVars, flowVars, apiVars, bpVars>>
    \/ ExecutorDone /\ UNCHANGED <<mergeVars, batchVars, contentVars, keyVars, scoreVars, mapperVars, flowVars, apiVars, bpVars>>
    \/ CleanupDrivers /\ UNCHANGED <<mergeVars, batchVars, contentVars, keyVars, scoreVars, mapperVars, flowVars, apiVars, bpVars>>
    \/ SaveSelenium /\ UNCHANGED <<mergeVars, batchVars, contentVars, keyVars, scoreVars, mapperVars, flowVars, apiVars, bpVars>>
    \/ MainFinally /\ UNCHANGED <<mergeVars, batchVars, contentVars, keyVars, scoreVars, mapperVars, flowVars, apiVars, bpVars>>

-----------------------------------------------------------------------------
(* app/db.py: map_source_to_final_category                                 *)

indian_cities_states ==
    {"mumbai", "delhi", "chennai", "hyderabad", "pune", "kolkata",
     "maharashtra", "tamil nadu", "telangana", "west bengal", "ncr",
     "new delhi", "gurgaon", "noida", "ahmedabad", "surat", "jaipur",
     "lucknow", "kanpur", "nagpur", "indore", "thane", "bhopal",
     "visakhapatnam", "pimpri", "patna", "vadodara", "ludhiana",
     "agra", "nashik", "faridabad", "meerut", "rajkot", "kalyan",
     "vasai", "varanasi", "srinagar", "aurangabad", "dhanbad",
     "amritsar", "navi mumbai", "allahabad", "ranchi", "howrah",
     "coimbatore", "jabalpur", "gwalior", "vijayawada", "jodhpur",
     "madurai", "raipur", "kota", "guwahati", "chandigarh"}

\* an exact-match table one of whose targets is not a canonical category
specific_mappings_Verbose ==
    ("indian cinema and bollywood" :> "entertainment")
    @@ ("indian celebrity" :> "entertainment")
    @@ ("indian sports" :> "sports")
    @@ ("indian politics" :> "politics")
    @@ ("indian education" :> "education")
    @@ ("indian scandal and crime" :> "crime")
    @@ ("trending in bengaluru and india" :> "trending")
    @@ ("international" :> "world news")
    @@ ("india" :> "india")

specific_mappings ==
    ("indian cinema and bollywood" :> "entertainment")
    @@ ("indian celebrity" :> "entertainment")
    @@ ("indian sports" :> "sports")
    @@ ("indian politics" :> "politics")
    @@ ("indian education" :> "education")
    @@ ("indian scandal and crime" :> "crime")
    @@ ("trending in bengaluru and india" :> "trending")
    @@ ("international" :> "world")
    @@ ("india" :> "india")

priority_list ==
    <<"trending", "politics", "education", "sports", "entertainment",
      "celebrity", "cinema", "crime", "scandal", "technology",
      "world", "business", "health", "science">>

\* the first base category of the priority list that occurs in source_lower, 0 if none
FirstBaseCategory(source_lower) ==
    LET hits == {k \in 1..Len(priority_list) : Contains(source_lower, priority_list[k])}
    IN  IF hits = {} THEN 0 ELSE CHOOSE k \in hits : \A j \in hits : k <= j

\* map_source_to_final_category(source_category)
map_source_to_final_category(source_category) ==
    LET source_lower == Strip(Lower(source_category))
    IN  IF Contains(source_lower, "bengaluru") \/ Contains(source_lower, "bangalore")
        THEN "bengaluru"
        ELSE IF \E city_state \in indian_cities_states : Contains(source_lower, city_state)
        THEN "india"
        ELSE IF source_lower \in DOMAIN specific_mappings
        THEN specific_mappings[source_lower]
        ELSE IF FirstBaseCategory(source_lower) # 0
        THEN priority_list[FirstBaseCategory(source_lower)]
        ELSE IF Contains(source_lower, "indian") \/ Contains(source_lower, "india")
        THEN "india"
        ELSE source_category

\* main.py DEFAULT_CATEGORIES
DEFAULT_CATEGORIES ==
    <<"Bengaluru", "technology", "indian celebrity", "entertainment ", "indian sports",
      "international", "trending in bengaluru and india", "indian politics", "india",
      "indian education", "indian scandal and crime", "indian cinema and bollywood",
      "mumbai", "delhi", "chennai", "hyderabad", "pune", "kolkata">>

\* the labels the mapper is run on: the requested categories, the keys of the
\* table, the canonical categories and labels that match no rule
Labels ==
    {DEFAULT_CATEGORIES[k] : k \in 1..Len(DEFAULT_CATEGORIES)}
    \cup DOMAIN specific_mappings
    \cup {priority_list[k] : k \in 1..Len(priority_list)}
    \cup {"bengaluru", "world news", "Indian Railways", "Weather", " Local Weather ", "top",
          "INTERNATIONAL", " India ", "science and health", "crime in new delhi",
          "Bangalore traffic", "viral", "miscellaneous", "political_scandal", ""}

RECURSIVE RemoveAll(_, _)
\* s.replace(sub, '')
RemoveAll(s, sub) ==
    LET i == Find(s, sub)
    IN  IF i = 0 THEN s
        ELSE SubSeq(s, 1, i - 1) \o RemoveAll(Suffix(s, i + Len(sub)), sub)

\* scripts/push_inshorts_to_supabase.py get_category_from_filename(filename)
get_category_from_filename(filename) == RemoveAll(RemoveAll(filename, "inshorts_"), ".json")

\* f"inshorts_{final_category}.json"
InshortsFileName(final_category) == "inshorts_" \o final_category \o ".json"

\* final_category = map_source_to_final_category(category)
MapLabel ==
    /\ mapc = "label"
    /\ map_result' = map_source_to_final_category(map_label)
    /\ mapc' = "mapped"
    /\ UNCHANGED <<map_label, map_again>>

\* the category recovered from the file name is mapped again
\* (push_all_inshorts_to_supabase)
MapAgain ==
    /\ mapc = "mapped"
    /\ map_again' = map_source_to_final_category(
                       get_category_from_filename(InshortsFileName(map_result)))
    /\ mapc' = "remapped"
    /\ UNCHANGED <<map_label, map_result>>

MapperStart ==
    /\ map_label \in Labels
    /\ map_result = ""
    /\ map_again = ""
    /\ mapc = "label"

MapperIdle ==
    /\ map_label = ""
    /\ map_result = ""
    /\ map_again = ""
    /\ mapc = "idle"

NextMapper ==
    \/ MapLabel /\ UNCHANGED <<mergeVars, batchVars, poolVars, contentVars, keyVars, scoreVars, flowVars, apiVars, bpVars>>
    \/ MapAgain /\ UNCHANGED <<mergeVars, batchVars, poolVars, contentVars, keyVars, scoreVars, flowVars, apiVars, bpVars>>

-----------------------------------------------------------------------------
(* app/browser_pool.py: BrowserPool                                        *)
(* Every public method holds self._lock for its whole body, so a call is   *)
(* one step. Time is counted in units of the model's clock.                *)

\* threads that share the pool
MaxThreads == 2
\* browsers one pool creates in a run of the model
MaxSessions == 2
\* last reading of the clock
MaxClock == 3
\* max_idle_time of the pool, in clock units
MaxIdleTime == 1

Threads == 1..MaxThreads

\* self.driver is None
NoDriver == 0

\* a browser session: "live", "quit" after quit() returned, "quit_failed" after
\* quit() raised; configured is set once set_page_load_timeout has returned
Session(state, configured) == [state |-> state, configured |-> configured]

\* a cleanup that drops the reference and leaves the browser running
_cleanup_driver_ClearOnly(driver, sessions, quit_raises) == sessions

\* _cleanup_driver: the sessions after self.driver.quit(); self.driver is None afterwards
_cleanup_driver(driver, sessions, quit_raises) ==
    IF driver = NoDriver THEN sessions
    ELSE [sessions EXCEPT ![driver].state = IF quit_raises THEN "quit_failed" ELSE "quit"]

\* the test of _needs_new_browser: "none" | "unresponsive" | "idle" | "no"
NeedsNewBrowser(responsive) ==
    IF bp_driver = NoDriver THEN "none"
    ELSE IF ~responsive THEN "unresponsive"
    ELSE IF bp_last_used # 0 /\ (bp_now - bp_last_used) > MaxIdleTime THEN "idle"
    ELSE "no"

\* get_driver() called by thread t.
\*   responsive  self.driver.current_url returns
\*   quit_raises self.driver.quit() raises inside _cleanup_driver
\*   create      "ok" | "chrome_raises" (webdriver.Chrome raises)
\*               | "timeout_raises" (set_page_load_timeout raises)
GetDriver ==
  \E t \in Threads :
    /\ bp_using[t] = NoDriver
    /\ \E responsive, quit_raises \in BOOLEAN, create \in {"ok", "chrome_raises", "timeout_raises"} :
          LET need == NeedsNewBrowser(responsive)
              cleaned == IF need \in {"unresponsive", "idle"}
                         THEN _cleanup_driver(bp_driver, bp_sessions, quit_raises)
                         ELSE bp_sessions
              new == Len(bp_sessions) + 1
          IN  IF need = "no"
              THEN /\ bp_last_used' = bp_now
                   /\ bp_using' = [bp_using EXCEPT ![t] = bp_driver]
                   /\ bp_call' = [op |-> "get_driver", thread |-> t, result |-> "returned",
                                  driver |-> bp_driver, created |-> "no"]
                   /\ UNCHANGED <<bp_driver, bp_sessions>>
              ELSE /\ Len(bp_sessions) < MaxSessions
                   /\ IF create = "chrome_raises"
                      THEN /\ bp_driver' = NoDriver
                           /\ bp_sessions' = cleaned
                           /\ bp_call' = [op |-> "get_driver", thread |-> t, result |-> "raised",
                                          driver |-> NoDriver, created |-> "no"]
                           /\ UNCHANGED <<bp_last_used, bp_using>>
                      ELSE IF create = "timeout_raises"
                      THEN /\ bp_driver' = new
                           /\ bp_sessions' = Append(cleaned, Session("live", FALSE))
                           /\ bp_call' = [op |-> "get_driver", thread |-> t, result |-> "raised",
                                          driver |-> NoDriver, created |-> need]
                           /\ UNCHANGED <<bp_last_used, bp_using>>
                      ELSE /\ bp_driver' = new
                           /\ bp_sessions' = Append(cleaned, Session("live", TRUE))
                           /\ bp_last_used' = bp_now
                           /\ bp_using' = [bp_using EXCEPT ![t] = new]
                           /\ bp_call' = [op |-> "get_driver", thread |-> t, result |-> "returned",
                                          driver |-> new, created |-> need]
    /\ UNCHANGED bp_now

\* reset_if_needed() called by thread t
ResetIfNeeded ==
  \E t \in Threads :
    /\ \E responsive, quit_raises \in BOOLEAN :
          IF bp_driver # NoDriver /\ ~responsive
          THEN /\ bp_sessions' = _cleanup_driver(bp_driver, bp_sessions, quit_raises)
               /\ bp_driver' = NoDriver
          ELSE UNCHANGED <<bp_driver, bp_sessions>>
    /\ bp_call' = [op |-> "reset_if_needed", thread |-> t, result |-> "returned",
                   driver |-> NoDriver, created |-> "no"]
    /\ UNCHANGED <<bp_last_used, bp_now, bp_using>>

\* cleanup() called by thread t
Cleanup ==
  \E t \in Threads :
    /\ \E quit_raises \in BOOLEAN :
          bp_sessions' = _cleanup_driver(bp_driver, bp_sessions, quit_raises)
    /\ bp_driver' = NoDriver
    /\ bp_call' = [op |-> "cleanup", thread |-> t, result |-> "returned",
                   driver |-> NoDriver, created |-> "no"]
    /\ UNCHANGED <<bp_last_used, bp_now, bp_using>>

\* thread t is done with the driver it was given
StopUsing ==
  \E t \in Threads :
    /\ bp_using[t] # NoDriver
    /\ bp_using' = [bp_using EXCEPT ![t] = NoDriver]
    /\ UNCHANGED <<bp_driver, bp_sessions, bp_last_used, bp_now, bp_call>>

\* time.time() advances
Tick ==
    /\ bp_now < MaxClock
    /\ bp_now' = bp_now + 1
    /\ UNCHANGED <<bp_driver, bp_sessions, bp_last_used, bp_using, bp_call>>

NoCall == [op |-> "none", thread |-> 0, result |-> "none", driver |-> NoDriver, created |-> "no"]

\* BrowserPool.__init__
BrowserPoolStart ==
    /\ bp_driver = NoDriver
    /\ bp_sessions = <<>>
    /\ bp_last_used = 0
    /\ bp_now = 1
    /\ bp_using = [t \in Threads |-> NoDriver]
    /\ bp_call = NoCall

BrowserPoolIdle ==
    /\ bp_driver = NoDriver
    /\ bp_sessions = <<>>
    /\ bp_last_used = 0
    /\ bp_now = 0
    /\ bp_using = <<>>
    /\ bp_call = NoCall

NextBrowserPool ==
    \/ GetDriver /\ UNCHANGED <<mergeVars, batchVars, poolVars, contentVars, keyVars, scoreVars, mapperVars, flowVars, apiVars>>
    \/ ResetIfNeeded /\ UNCHANGED <<mergeVars, batchVars, poolVars, contentVars, keyVars, scoreVars, mapperVars, flowVars, apiVars>>
    \/ Cleanup /\ UNCHANGED <<mergeVars, batchVars, poolVars, contentVars, keyVars, scoreVars, mapperVars, flowVars, apiVars>>
    \/ StopUsing /\ UNCHANGED <<mergeVars, batchVars, poolVars, contentVars, keyVars, scoreVars, mapperVars, flowVars, apiVars>>
    \/ Tick /\ UNCHANGED <<mergeVars, batchVars, poolVars, contentVars, keyVars, scoreVars, mapperVars, flowVars, apiVars>>

-----------------------------------------------------------------------------
(* app/api.py: GET /top-news, GET /topic-headlines/{topic}, POST /cleanup; *)
(* app/db.py: the operations on the news_articles table                    *)
(* A request is handled in one step. api_trace lists the calls the handler *)
(* made: "get_stored_news", "get_top_news", "get_topic_headlines",         *)
(* "format_news_data", "store_news", "cleanup_old_articles".               *)

\* largest id of a row of news_articles: the rows a run inserts in all
MaxRows == 2
\* days_old: int = Query(30, ...)
DefaultDaysOld == 30
\* entries of one feed
MaxEntries == 2
\* get_stored_news(..., limit=50)
StoredLimit == 50

valid_topics == <<"business", "technology", "entertainment", "sports", "health", "science", "world">>

\* a validation that accepts every topic
IsValidTopic_Any(topic) == TRUE

\* topic.lower() in valid_topics
IsValidTopic(topic) ==
    LET lowered == Lower(topic)
    IN  \E k \in 1..Len(valid_topics) : valid_topics[k] = lowered

\* f"Invalid topic. Choose from: {', '.join(valid_topics)}"
InvalidTopicDetail == "Invalid topic. Choose from: " \o Join(valid_topics, ", ")

\* an entry of the feed as the news service returns it
FeedEntry(title, source_title) ==
    [title |-> title, link |-> "https://news.example/" \o title,
     published |-> "Mon, 15 Jan 2024 10:00:00 GMT",
     published_parsed |-> <<2024, 1, 15, 10, 0, 0, 0, 15, 0>>,
     source |-> [href |-> "https://source.example", title |-> source_title],
     sub_articles |-> <<>>]

\* an entry without 'source', 'published_parsed' and 'sub_articles'
BareEntry(title) ==
    [title |-> title, link |-> "https://news.example/" \o title,
     published |-> "Mon, 15 Jan 2024 10:00:00 GMT"]

\* the outcome of a call of the news service: it raises, or returns a feed
FeedEntries == <<FeedEntry("a", "Mint"), BareEntry("b"), FeedEntry("c", "PTI")>>
Feeds == {[raises |-> FALSE, entries |-> SubSeq(FeedEntries, 1, n)] : n \in 0..Min(MaxEntries, Len(FeedEntries))}
             \cup {[raises |-> TRUE, entries |-> <<>>]}

\* the article format_news_data builds for an entry: title, link, published,
\* published_parsed and sub_articles are copied, source is the title of the
\* entry's source when the entry has a non-empty one
FormatEntry(entry) ==
    [title |-> EntryGet(entry, "title", None),
     link |-> EntryGet(entry, "link", None),
     published |-> EntryGet(entry, "published", None),
     published_parsed |-> EntryGet(entry, "published_parsed", None),
     source |-> IF "source" \in DOMAIN entry /\ DOMAIN entry.source # {}
                THEN EntryGet(entry.source, "title", None) ELSE None,
     sub_articles |-> EntryGet(entry, "sub_articles", <<>>)]

\* news_service.format_news_data: one article per entry of news_data['entries']
format_news_data(feed) ==
    IF "entries" \in DOMAIN feed
    THEN [k \in 1..Len(feed.entries) |-> FormatEntry(feed.entries[k])]
    ELSE <<>>

\* the row store_news inserts for an article: article.get(...) of each column,
\* None for a description that is missing or empty
StoredRow(article, category) ==
    LET description_content == EntryGet(article, "description", "")
    IN  [title |-> EntryGet(article, "title", ""), link |-> EntryGet(article, "link", ""),
         published |-> EntryGet(article, "published", ""),
         source |-> EntryGet(article, "source", ""), category |-> category,
         description |-> IF Truthy(description_content) THEN description_content ELSE None,
         image_url |-> EntryGet(article, "image_url", None),
         article_id |-> EntryGet(article, "article_id", None),
         quality_score |-> EntryGet(article, "quality_score", 0)]

\* a row of the table: the columns store_news inserts and the two the
\* database fills in. age_days stands for created_at: the whole days between
\* created_at and now. created_at lies before now, so created_at is less than
\* now - timedelta(days=d) exactly when age_days >= d.
TableRow(id, age_days, row) ==
    [id |-> id, age_days |-> age_days,
     title |-> row.title, link |-> row.link, published |-> row.published,
     source |-> row.source, category |-> row.category, description |-> row.description,
     image_url |-> row.image_url, article_id |-> row.article_id,
     quality_score |-> row.quality_score]

\* store_news: the table afterwards; a failure is caught and
\* leaves the table as it is
store_news(table, next_id, articles, category, db_ok) ==
    IF db_ok
    THEN table \o [k \in 1..Len(articles) |->
                      TableRow(next_id + k - 1, 0, StoredRow(articles[k], category))]
    ELSE table

\* how a call of the database ends: it answers, it raises, or db.py has no
\* client (SUPABASE_KEY is not set)
DbOutcomes == {"ok", "raises", "not_configured"}

\* what store_news returns; 'data' is response.data, the rows as inserted
StoreNewsResult(table, next_id, articles, category, db) ==
    CASE db = "ok" ->
           [success |-> TRUE, stored_count |-> Len(articles),
            data |-> SubSeq(store_news(table, next_id, articles, category, TRUE),
                            Len(table) + 1, Len(table) + Len(articles))]
      [] db = "raises" -> [success |-> FALSE, error |-> "error", stored_count |-> 0]
      [] db = "not_configured" -> [success |-> FALSE, error |-> "Supabase not configured"]

\* cleanup_old_articles(days_old): delete().lt("created_at", cutoff_str)
cleanup_old_articles(table, days_old, db) ==
    LET kept == SelectSeq(table, LAMBDA r : ~(r.age_days >= days_old))
    IN  CASE db = "ok" ->
               [table |-> kept,
                result |-> [success |-> TRUE, deleted_count |-> Len(table) - Len(kept)]]
          [] db = "raises" ->
               [table |-> table,
                result |-> [success |-> FALSE, error |-> "error", deleted_count |-> 0]]
          [] db = "not_configured" ->
               [table |-> table,
                result |-> [success |-> FALSE, error |-> "Supabase not configured"]]

\* update(update).eq("id", article_id): the columns of update replace those of
\* the rows with that id
UpdateRows(table, article_id, columns) ==
    [k \in 1..Len(table) |->
        IF table[k].id = article_id
        THEN [f \in DOMAIN table[k] |-> IF f \in DOMAIN columns THEN columns[f] ELSE table[k][f]]
        ELSE table[k]]

\* the columns left in update after update.pop("id")
WithoutId(update) == [f \in DOMAIN update \ {"id"} |-> update[f]]

\* the loop of bulk_update_articles from update k on. article_id is <<>> while
\* the variable is unbound and <<id>> once an update had an id. An update without "id" raises KeyError in
\* pop; the except clause formats article_id, which raises in turn while it
\* is unbound, and the outer except returns the failure.
RECURSIVE BulkUpdateFrom(_, _, _, _, _, _, _)
BulkUpdateFrom(table, updates, db_ok, k, article_id, updated_count, errors) ==
    IF k > Len(updates)
    THEN [table |-> table,
          result |-> [success |-> TRUE, updated_count |-> updated_count, errors |-> errors]]
    ELSE IF "id" \notin DOMAIN updates[k]
    THEN (IF article_id = <<>>
          THEN [table |-> table, result |-> [success |-> FALSE, error |-> "error"]]
          ELSE BulkUpdateFrom(table, updates, db_ok, k + 1, article_id, updated_count,
                              Append(errors, "Failed to update article " \o ToString(article_id[1])
                                                 \o ": 'id'")))
    ELSE IF db_ok[k]
    THEN BulkUpdateFrom(UpdateRows(table, updates[k].id, WithoutId(updates[k])), updates, db_ok,
                        k + 1, <<updates[k].id>>, updated_count + 1, errors)
    ELSE BulkUpdateFrom(table, updates, db_ok, k + 1, <<updates[k].id>>, updated_count,
                        Append(errors, "Failed to update article " \o ToString(updates[k].id)
                                           \o ": error"))

\* bulk_update_articles(updates); db_ok[k] tells whether the k-th update call
\* of the database succeeds
bulk_update_articles(table, updates, configured, db_ok) ==
    IF ~configured
    THEN [table |-> table, result |-> [success |-> FALSE, error |-> "Supabase not configured"]]
    ELSE BulkUpdateFrom(table, updates, db_ok, 1, <<>>, 0, <<>>)

RECURSIVE NewestFirst(_, _, _)
NewestFirst(table, category, k) ==
    IF k = 0 THEN <<>>
    ELSE (IF table[k].category = category THEN <<table[k]>> ELSE <<>>)
         \o NewestFirst(table, category, k - 1)

\* get_stored_news(category): the rows of the category, newest first, at most
\* 50 of them; [] when the query fails
get_stored_news(table, category, db_ok) ==
    IF db_ok
    THEN LET rows == NewestFirst(table, category, Len(table))
         IN  SubSeq(rows, 1, Min(StoredLimit, Len(rows)))
    ELSE <<>>

Response(status, body, detail) == [status |-> status, body |-> body, detail |-> detail]

\* what a handler did: its response, its calls and the table afterwards
Handled(response, trace, table) == [response |-> response, trace |-> trace, table |-> table]

\* the id of the next row once table has replaced api_table
NextIdAfter(table) ==
    IF Len(table) > Len(api_table) THEN api_next_id + Len(table) - Len(api_table) ELSE api_next_id

\* the try block shared by get_top_news and get_topic_headlines
FetchOrCache(category, service_call, error_detail, use_cache, read_ok, feed, store_ok) ==
    LET cached == get_stored_news(api_table, category, read_ok)
        reads == IF use_cache THEN <<"get_stored_news">> ELSE <<>>
    IN  IF use_cache /\ cached # <<>>
        THEN Handled(Response(200, cached, ""), reads, api_table)
        ELSE IF feed.raises
        THEN Handled(Response(500, <<>>, error_detail), reads \o <<service_call>>, api_table)
        ELSE LET formatted_news == format_news_data(feed)
             IN  Handled(Response(200, formatted_news, ""),
                         reads \o <<service_call, "format_news_data", "store_news">>,
                         store_news(api_table, api_next_id, formatted_news, category, store_ok))

\* get_top_news(use_cache)
TopNewsHandler(use_cache, read_ok, feed, store_ok) ==
    FetchOrCache("top", "get_top_news", "Error fetching top news: error",
                 use_cache, read_ok, feed, store_ok)

\* get_topic_headlines(topic, use_cache)
TopicHeadlinesHandler(topic, use_cache, read_ok, feed, store_ok) ==
    IF ~IsValidTopic(topic)
    THEN Handled(Response(400, <<>>, InvalidTopicDetail), <<>>, api_table)
    ELSE FetchOrCache(Lower(topic), "get_topic_headlines",
                      "Error fetching headlines for topic '" \o topic \o "': error",
                      use_cache, read_ok, feed, store_ok)

\* topics of the requests
RequestTopics == {"Sports", "invalid"}

\* GET /top-news
GetTopNews ==
    \E use_cache, read_ok, store_ok \in BOOLEAN, feed \in Feeds :
        LET h == TopNewsHandler(use_cache, read_ok, feed, store_ok)
        IN  /\ NextIdAfter(h.table) - 1 <= MaxRows
            /\ api_request' = [endpoint |-> "/top-news", topic |-> "", use_cache |-> use_cache,
                               service_raises |-> (feed.raises),
                               formatted |-> IF feed.raises THEN <<>> ELSE format_news_data(feed)]
            /\ api_response' = h.response
            /\ api_trace' = h.trace
            /\ api_stored' = Len(h.table) - Len(api_table)
            /\ api_table' = h.table
            /\ api_next_id' = NextIdAfter(h.table)

\* GET /topic-headlines/{topic}
GetTopicHeadlines ==
    \E topic \in RequestTopics, use_cache, read_ok, store_ok \in BOOLEAN, feed \in Feeds :
        LET h == TopicHeadlinesHandler(topic, use_cache, read_ok, feed, store_ok)
        IN  /\ NextIdAfter(h.table) - 1 <= MaxRows
            /\ api_request' = [endpoint |-> "/topic-headlines", topic |-> topic,
                               use_cache |-> use_cache, service_raises |-> (feed.raises),
                               formatted |-> IF feed.raises THEN <<>> ELSE format_news_data(feed)]
            /\ api_response' = h.response
            /\ api_trace' = h.trace
            /\ api_stored' = Len(h.table) - Len(api_table)
            /\ api_table' = h.table
            /\ api_next_id' = NextIdAfter(h.table)

\* cleanup_database(days_old, confirm)
CleanupHandler(days_old, confirm, db) ==
    IF ~confirm
    THEN Handled(Response(200,
                          [message |-> "Add ?confirm=true to actually delete articles",
                           preview |-> "Would delete articles older than " \o ToString(days_old)
                                           \o " days"],
                          ""),
                 <<>>, api_table)
    ELSE LET cleaned == cleanup_old_articles(api_table, days_old, db)
         IN  Handled(Response(200, cleaned.result, ""), <<"cleanup_old_articles">>, cleaned.table)

\* days_old of the requests
DaysOldChoices == {0, DefaultDaysOld}

\* POST /cleanup
PostCleanup ==
    \E days_old \in DaysOldChoices, confirm \in BOOLEAN, db \in DbOutcomes :
        LET h == CleanupHandler(days_old, confirm, db)
        IN  /\ api_request' = [endpoint |-> "/cleanup", days_old |-> days_old, confirm |-> confirm]
            /\ api_response' = h.response
            /\ api_trace' = h.trace
            /\ api_stored' = Len(h.table) - Len(api_table)
            /\ api_table' = h.table
            /\ UNCHANGED api_next_id

\* an inshorts file whose articles carry a quality_score, and one whose
\* article has a title and an image only
InshortsScored ==
    [articles |->
        <<[id |-> "a1b2c3d4", title |-> "Rain lashes Mumbai", url |-> "https://news.example/rain",
           source |-> "Mint", published |-> "Mon, 15 Jan 2024 10:00:00 GMT",
           image_url |-> "https://img.example/rain.jpg", summary |-> "Heavy rain.",
           description |-> "Heavy rain flooded several parts of the city on Monday.",
           quality_score |-> 850],
          [title |-> "Budget 2025", image_url |-> "https://img.example/budget.jpg"]>>]

\* supabase_articles = convert_inshorts_to_supabase_format(inshorts_data, final_category)
UploadedArticles == convert_inshorts_to_supabase_format(InshortsScored, "sports")
UploadLists == {SubSeq(UploadedArticles, i, j) : i, j \in 1..Len(UploadedArticles)} \ {<<>>}

\* push_inshorts_to_supabase.py: store_news(supabase_articles, category=final_category)
\* for the converted articles of one inshorts file
UploadStoreNews ==
    \E articles \in UploadLists, db \in DbOutcomes :
        LET table == store_news(api_table, api_next_id, articles, "sports", db = "ok")
        IN  /\ NextIdAfter(table) - 1 <= MaxRows
            /\ api_request' = [endpoint |-> "db.store_news", category |-> "sports"]
            /\ api_response' = Response(0, StoreNewsResult(api_table, api_next_id, articles, "sports", db), "")
            /\ api_trace' = <<"store_news">>
            /\ api_stored' = Len(table) - Len(api_table)
            /\ api_table' = table
            /\ api_next_id' = NextIdAfter(table)

\* updates given to bulk_update_articles: of the row with id 1, without "id",
\* of an id no row has
UpdateFirst == [id |-> 1, title |-> "changed", category |-> "world"]
UpdateNoId == [title |-> "changed"]
UpdateAbsent == [id |-> 0, category |-> "world"]
UpdateLists ==
    {<<>>, <<UpdateFirst>>, <<UpdateNoId, UpdateFirst>>, <<UpdateFirst, UpdateNoId>>,
     <<UpdateAbsent>>}

\* db.bulk_update_articles(updates): no route of api.py calls it
BulkUpdateArticles ==
    \E updates \in UpdateLists, configured \in BOOLEAN :
      \E db_ok \in [1..Len(updates) -> BOOLEAN] :
        LET done == bulk_update_articles(api_table, updates, configured, db_ok)
        IN  /\ ~configured => (updates = <<>>)
            /\ api_request' = [endpoint |-> "db.bulk_update_articles"]
            /\ api_response' = Response(0, done.result, "")
            /\ api_trace' = <<"bulk_update_articles">>
            /\ api_stored' = 0
            /\ api_table' = done.table
            /\ UNCHANGED api_next_id

NoRequest == [endpoint |-> "", topic |-> "", use_cache |-> TRUE, service_raises |-> FALSE,
              formatted |-> <<>>]

\* the table when the service starts: empty, or with rows of earlier runs
TablesAtStart ==
    {<<>>, <<TableRow(1, 400, StoredRow(FormatEntry(FeedEntry("old", "PTI")), "top"))>>,
     <<TableRow(1, 400, StoredRow(FormatEntry(FeedEntry("old", "PTI")), "sports"))>>}

ApiStart ==
    /\ api_table \in TablesAtStart
    /\ api_next_id = Len(api_table) + 1
    /\ api_request = NoRequest
    /\ api_response = Response(0, <<>>, "")
    /\ api_trace = <<>>
    /\ api_stored = 0

ApiIdle ==
    /\ api_table = <<>>
    /\ api_next_id = 1
    /\ api_request = NoRequest
    /\ api_response = Response(0, <<>>, "")
    /\ api_trace = <<>>
    /\ api_stored = -1

NextApi ==
    \/ GetTopNews /\ UNCHANGED <<mergeVars, batchVars, poolVars, contentVars, keyVars, scoreVars, mapperVars, flowVars, bpVars>>
    \/ GetTopicHeadlines /\ UNCHANGED <<mergeVars, batchVars, poolVars, contentVars, keyVars, scoreVars, mapperVars, flowVars, bpVars>>
    \/ PostCleanup /\ UNCHANGED <<mergeVars, batchVars, poolVars, contentVars, keyVars, scoreVars, mapperVars, flowVars, bpVars>>
    \/ BulkUpdateArticles /\ UNCHANGED <<mergeVars, batchVars, poolVars, contentVars, keyVars, scoreVars, mapperVars, flowVars, bpVars>>
    \/ UploadStoreNews /\ UNCHANGED <<mergeVars, batchVars, poolVars, contentVars, keyVars, scoreVars, mapperVars, flowVars, bpVars>>

-----------------------------------------------------------------------------
(* main.py: the workflow of main(): cleanup, prerequisites, fetch,         *)
(* extraction, upload, exit code                                           *)

\* number of --categories of a run
MaxCategories == 2

\* the directory cleanup_old_data, check_prerequisites and the upload script use
DataFolder == "data"
DataDirs == {DataFolder, "out"}

\* a file of a directory: os.path.join(dir, name)
File(dir, name) == [dir |-> dir, name |-> name]

\* f"news_{final_category}.json"
NewsFileName(final_category) == "news_" \o final_category \o ".json"

\* glob("inshorts_*.json")
IsInshortsFile(name) == StartsWith(name, "inshorts_") /\ EndsWith(name, ".json") /\ Len(name) >= Len("inshorts_.json")

\* --categories: each one of the choices, here runs of the list below
FlowCategories == <<"mumbai", "delhi", "technology", "Bengaluru">>
CategoryLists ==
    {SubSeq(FlowCategories, i, j) : i \in 1..Len(FlowCategories), j \in 1..Len(FlowCategories)}
        \ {q \in {SubSeq(FlowCategories, i, j) : i \in 1..Len(FlowCategories), j \in 1..Len(FlowCategories)} :
               Len(q) = 0 \/ Len(q) > MaxCategories}

\* map_source_to_final_category and the temp file name of each category of
\* FlowCategories, computed once
FinalCategoryOf ==
    [c \in {FlowCategories[k] : k \in 1..Len(FlowCategories)} |-> map_source_to_final_category(c)]

\* parse_args(): the flags and options the workflow reads
FlowArgs ==
    [skip_fetch : BOOLEAN, skip_extract : BOOLEAN, skip_supabase : BOOLEAN,
     categories : CategoryLists, data_dir : DataDirs]

\* cleanup_old_data(): every *.json of the folder "data" is unlinked; a file
\* whose unlink() raises is logged ('Could not delete') and stays
cleanup_old_data(files, undeletable) ==
    {f \in files : ~(f.dir = DataFolder /\ EndsWith(f.name, ".json")) \/ f \in undeletable}

\* cleanup_old_inshorts_files(data_dir): every inshorts_*.json of data_dir is
\* removed; a file whose os.remove() raises is logged ('Could not remove') and
\* stays
cleanup_old_inshorts_files(files, data_dir, undeletable) ==
    {f \in files : ~(f.dir = data_dir /\ IsInshortsFile(f.name)) \/ f \in undeletable}

RECURSIVE ReplaceCharFrom(_, _, _, _)
ReplaceCharFrom(str, old, new, i) ==
    IF i > Len(str) THEN ""
    ELSE (IF Char(str, i) = old THEN new ELSE Char(str, i)) \o ReplaceCharFrom(str, old, new, i + 1)

\* str.replace(old, new) for a single character old
ReplaceChar(str, old, new) == ReplaceCharFrom(str, old, new, 1)

\* f"temp_news_{category.replace(' ', '_').replace('/', '_')}.json"
TempFileName(category) ==
    "temp_news_" \o ReplaceChar(ReplaceChar(category, " ", "_"), "/", "_") \o ".json"

TempFileNameOf ==
    [c \in {FlowCategories[k] : k \in 1..Len(FlowCategories)} |-> TempFileName(c)]

\* the temp files the fetch commands of the categories numbered in fetched wrote
TempFiles(args, fetched) ==
    {File(args.data_dir, TempFileNameOf[args.categories[k]]) : k \in fetched}

\* files of earlier runs found in the data directory when a run starts
FilesBefore(data_dir) ==
    {{},
     {File(data_dir, NewsFileName("india")), File(data_dir, NewsFileName("technology"))},
     {File(data_dir, NewsFileName("india")), File(data_dir, InshortsFileName("india"))},
     {File(data_dir, TempFileNameOf["mumbai"])}}

\* a test that never finds a step failed
StepFailed_Never(success_count) == FALSE

\* if step1_success == 0 / if step2_success == 0 (False == 0 in Python)
StepFailed(success_count) == success_count = 0

RECURSIVE ValidFrom(_, _, _, _)
ValidFrom(categories, data_dir, files, k) ==
    IF k > Len(categories) THEN <<>>
    ELSE LET final_category == FinalCategoryOf[categories[k]]
             input_file == File(data_dir, NewsFileName(final_category))
         IN  (IF input_file \in files
              THEN <<[source_category |-> categories[k], final_category |-> final_category,
                      input_file |-> input_file]>>
              ELSE <<>>) \o ValidFrom(categories, data_dir, files, k + 1)

\* valid_categories of step2_extract_and_summarize_playwright
valid_categories(categories, data_dir, files) == ValidFrom(categories, data_dir, files, 1)

\* the exit code main() determines after step 3
ExitCode(args, step2_count, step3_ok) ==
    IF args.skip_supabase
    THEN (IF args.skip_extract \/ step2_count > 0 THEN 0 ELSE 1)
    ELSE (IF step3_ok /\ (args.skip_extract \/ step2_count > 0) THEN 0 ELSE 1)

\* what a run has done so far; exit_code is -1 until main() returns
NoResult ==
    [step1_ran |-> FALSE, step1_success |-> 0,
     step2_ran |-> FALSE, step2_looked |-> FALSE, step2_success |-> 0, found |-> <<>>,
     step3_started |-> FALSE, step3_success |-> FALSE, exit_code |-> -1]

Exit(result, code) == [result EXCEPT !.exit_code = code]

\* main(): cleanup_old_data()
CleanupOldData ==
    /\ flow_pc = "cleanup_old_data"
    /\ flow_files' = cleanup_old_data(flow_files, flow_undeletable)
    /\ flow_pc' = "check_prerequisites"
    /\ UNCHANGED <<flow_args, flow_before, flow_undeletable, flow_result, flow_extractions>>

\* main(): check_prerequisites()
CheckPrerequisites ==
    /\ flow_pc = "check_prerequisites"
    /\ \E ok \in BOOLEAN :
           IF ok
           THEN flow_pc' = "cleanup_old_inshorts_files" /\ flow_result' = flow_result
           ELSE flow_pc' = "exited" /\ flow_result' = Exit(flow_result, 1)
    /\ UNCHANGED <<flow_args, flow_before, flow_undeletable, flow_files, flow_extractions>>

\* main(): cleanup_old_inshorts_files(args.data_dir)
CleanupOldInshortsFiles ==
    /\ flow_pc = "cleanup_old_inshorts_files"
    /\ flow_files' = cleanup_old_inshorts_files(flow_files, flow_args.data_dir, flow_undeletable)
    /\ flow_pc' = "step1"
    /\ UNCHANGED <<flow_args, flow_before, flow_undeletable, flow_result, flow_extractions>>

\* main(): step 1 with its test of step1_success. fetched are the source
\* categories whose fetch command succeeded. A command that failed may have
\* written its temp file before: the file is in no list of temp_files, so
\* nothing removes it (stale). The temp files of the fetched categories are
\* merged per final category, each merge_news_files call creating
\* news_<final>.json or failing on its own (merged are the final categories
\* whose file it created), and then removed; left are those whose os.remove
\* raised, which 'except: pass' swallows.
Step1FetchNews ==
    /\ flow_pc = "step1"
    /\ ~flow_args.skip_fetch
    /\ \E fetched \in SUBSET (1..Len(flow_args.categories)) :
         \E merged \in SUBSET {FinalCategoryOf[flow_args.categories[k]] : k \in fetched},
            stale \in SUBSET TempFiles(flow_args, (1..Len(flow_args.categories)) \ fetched),
            left \in SUBSET TempFiles(flow_args, fetched) :
           LET success_count == Cardinality(fetched)
               result == [flow_result EXCEPT !.step1_ran = TRUE, !.step1_success = success_count]
           IN  /\ (TempFiles(flow_args, fetched) \cap flow_files \cap flow_undeletable) \subseteq left
               /\ flow_files' = (flow_files \ TempFiles(flow_args, fetched))
                                   \cup {File(flow_args.data_dir, NewsFileName(f)) : f \in merged}
                                   \cup stale \cup left
               /\ IF StepFailed(success_count)
                  THEN flow_pc' = "exited" /\ flow_result' = Exit(result, 1)
                  ELSE flow_pc' = "step2" /\ flow_result' = result
    /\ UNCHANGED <<flow_args, flow_before, flow_undeletable, flow_extractions>>

\* step 1 is left by an exception: run_command catches CalledProcessError only,
\* so any other exception of subprocess.run in the fetch of categories[at]
\* reaches main's except, which returns 1. Nothing was merged or removed:
\* every fetch command started so far, the one that raised included, may have
\* written its temp file (written), and step1_success is still 0.
Step1Raises ==
    /\ flow_pc = "step1"
    /\ ~flow_args.skip_fetch
    /\ \E at \in 1..Len(flow_args.categories) :
         \E written \in SUBSET (1..at) :
           /\ flow_files' = flow_files \cup TempFiles(flow_args, written)
           /\ flow_pc' = "exited"
           /\ flow_result' = Exit([flow_result EXCEPT !.step1_ran = TRUE], 1)
    /\ UNCHANGED <<flow_args, flow_before, flow_undeletable, flow_extractions>>

\* main(): --skip-fetch
SkipFetch ==
    /\ flow_pc = "step1"
    /\ flow_args.skip_fetch
    /\ flow_pc' = "step2"
    /\ UNCHANGED <<flow_args, flow_before, flow_undeletable, flow_files, flow_result, flow_extractions>>

\* main(): step 2 with its test of step2_success. The extractor is run for
\* the entries of valid_categories in order; succeeded are the entries whose
\* command succeeded, wrote those whose command wrote inshorts_<final>.json:
\* a command that succeeded has written it, one that failed may have written
\* it before it failed. raised: an exception leaves the function after done
\* commands have run (async_playwright or the launch with done = 0, run_command,
\* browser.close() in the finally, the exit of the playwright context); main's
\* except returns 1 and step2_success keeps its initial 0, whatever was written.
Step2Extract ==
    /\ flow_pc = "step2"
    /\ ~flow_args.skip_extract
    /\ LET found == valid_categories(flow_args.categories, flow_args.data_dir, flow_files)
           ran == [flow_result EXCEPT !.step2_ran = TRUE]
           looked == [ran EXCEPT !.step2_looked = TRUE, !.found = found]
       IN  \E playwright_ok, raised \in BOOLEAN, done \in 0..Len(found) :
             \E succeeded \in SUBSET (1..done) : \E wrote \in SUBSET (1..done) :
               IF ~playwright_ok
               THEN /\ ~raised /\ done = 0 /\ wrote = {}
                    /\ flow_pc' = "exited"
                    /\ flow_result' = Exit(ran, 1)
                    /\ UNCHANGED <<flow_files, flow_extractions>>
               ELSE IF found = <<>>
               THEN /\ ~raised /\ wrote = {}
                    /\ flow_pc' = "exited"
                    /\ flow_result' = Exit(looked, 1)
                    /\ UNCHANGED <<flow_files, flow_extractions>>
               ELSE LET success_count == Cardinality(succeeded)
                        result == [looked EXCEPT !.step2_success = success_count]
                    IN  /\ ~raised => done = Len(found)
                        /\ succeeded \subseteq wrote
                        /\ flow_extractions' =
                               [k \in 1..done |->
                                   [source_category |-> found[k].source_category,
                                    final_category |-> found[k].final_category,
                                    input_file |-> found[k].input_file,
                                    output_file |-> File(flow_args.data_dir, InshortsFileName(found[k].final_category)),
                                    ok |-> k \in succeeded]]
                        /\ flow_files' = flow_files \cup
                               {File(flow_args.data_dir, InshortsFileName(found[k].final_category)) : k \in wrote}
                        /\ IF raised
                           THEN flow_pc' = "exited" /\ flow_result' = Exit(looked, 1)
                           ELSE IF StepFailed(success_count)
                           THEN flow_pc' = "exited" /\ flow_result' = Exit(result, 1)
                           ELSE flow_pc' = "step3" /\ flow_result' = result
    /\ UNCHANGED <<flow_args, flow_before, flow_undeletable>>

\* main(): --skip-extract
SkipExtract ==
    /\ flow_pc = "step2"
    /\ flow_args.skip_extract
    /\ flow_pc' = "step3"
    /\ UNCHANGED <<flow_args, flow_before, flow_undeletable, flow_files, flow_result, flow_extractions>>

\* main(): step 3 and the exit code
Step3Upload ==
    /\ flow_pc = "step3"
    /\ ~flow_args.skip_supabase
    /\ \E step3_success \in BOOLEAN :
           flow_result' = Exit([flow_result EXCEPT !.step3_started = TRUE, !.step3_success = step3_success],
                               ExitCode(flow_args, flow_result.step2_success, step3_success))
    /\ flow_pc' = "exited"
    /\ UNCHANGED <<flow_args, flow_before, flow_undeletable, flow_files, flow_extractions>>

\* main(): --skip-supabase and the exit code
SkipSupabase ==
    /\ flow_pc = "step3"
    /\ flow_args.skip_supabase
    /\ flow_result' = Exit([flow_result EXCEPT !.step3_success = TRUE],
                           ExitCode(flow_args, flow_result.step2_success, TRUE))
    /\ flow_pc' = "exited"
    /\ UNCHANGED <<flow_args, flow_before, flow_undeletable, flow_files, flow_extractions>>

FlowStart ==
    /\ flow_args \in FlowArgs
    /\ flow_before \in FilesBefore(flow_args.data_dir)
    /\ flow_undeletable \in SUBSET flow_before
    /\ flow_files = flow_before
    /\ flow_pc = "cleanup_old_data"
    /\ flow_result = NoResult
    /\ flow_extractions = <<>>

FlowIdle ==
    /\ flow_args = [skip_fetch |-> FALSE, skip_extract |-> FALSE, skip_supabase |-> FALSE,
                    categories |-> <<>>, data_dir |-> DataFolder]
    /\ flow_before = {}
    /\ flow_undeletable = {}
    /\ flow_files = {}
    /\ flow_pc = "idle"
    /\ flow_result = NoResult
    /\ flow_extractions = <<>>

NextFlow ==
    \/ CleanupOldData /\ UNCHANGED <<mergeVars, batchVars, poolVars, contentVars, keyVars, scoreVars, mapperVars, apiVars, bpVars>>
    \/ CheckPrerequisites /\ UNCHANGED <<mergeVars, batchVars, poolVars, contentVars, keyVars, scoreVars, mapperVars, apiVars, bpVars>>
    \/ CleanupOldInshortsFiles /\ UNCHANGED <<mergeVars, batchVars, poolVars, contentVars, keyVars, scoreVars, mapperVars, apiVars, bpVars>>
    \/ Step1FetchNews /\ UNCHANGED <<mergeVars, batchVars, poolVars, contentVars, keyVars, scoreVars, mapperVars, apiVars, bpVars>>
    \/ Step1Raises /\ UNCHANGED <<mergeVars, batchVars, poolVars, contentVars, keyVars, scoreVars, mapperVars, apiVars, bpVars>>
    \/ SkipFetch /\ UNCHANGED <<mergeVars, batchVars, poolVars, contentVars, keyVars, scoreVars, mapperVars, apiVars, bpVars>>
    \/ Step2Extract /\ UNCHANGED <<mergeVars, batchVars, poolVars, contentVars, keyVars, scoreVars, mapperVars, apiVars, bpVars>>
    \/ SkipExtract /\ UNCHANGED <<mergeVars, batchVars, poolVars, contentVars, keyVars, scoreVars, mapperVars, apiVars, bpVars>>
    \/ Step3Upload /\ UNCHANGED <<mergeVars, batchVars, poolVars, contentVars, keyVars, scoreVars, mapperVars, apiVars, bpVars>>
    \/ SkipSupabase /\ UNCHANGED <<mergeVars, batchVars, poolVars, contentVars, keyVars, scoreVars, mapperVars, apiVars, bpVars>>

-----------------------------------------------------------------------------
(* Specifications                                                          *)

InitMerge ==
    /\ MergeStart
    /\ BatchIdle /\ PoolIdle /\ ContentIdle /\ KeyPointsIdle /\ ScoreIdle
    /\ MapperIdle /\ FlowIdle /\ ApiIdle /\ BrowserPoolIdle
SpecMerge == InitMerge /\ [][NextMerge]_vars

InitBatch ==
    /\ BatchStart
    /\ MergeIdle /\ PoolIdle /\ ContentIdle /\ KeyPointsIdle /\ ScoreIdle
    /\ MapperIdle /\ FlowIdle /\ ApiIdle /\ BrowserPoolIdle
SpecBatch == InitBatch /\ [][NextBatch]_vars

InitPool ==
    /\ PoolStart
    /\ MergeIdle /\ BatchIdle /\ ContentIdle /\ KeyPointsIdle /\ ScoreIdle
    /\ MapperIdle /\ FlowIdle /\ ApiIdle /\ BrowserPoolIdle
SpecPool == InitPool /\ [][NextPool]_vars

InitContent ==
    /\ ContentStart
    /\ MergeIdle /\ BatchIdle /\ PoolIdle /\ KeyPointsIdle /\ ScoreIdle
    /\ MapperIdle /\ FlowIdle /\ ApiIdle /\ BrowserPoolIdle
SpecContent == InitContent /\ [][NextContent]_vars

InitKeyPoints ==
    /\ KeyPointsStart
    /\ MergeIdle /\ BatchIdle /\ PoolIdle /\ ContentIdle /\ ScoreIdle
    /\ MapperIdle /\ FlowIdle /\ ApiIdle /\ BrowserPoolIdle
SpecKeyPoints == InitKeyPoints /\ [][NextKeyPoints]_vars

InitScore ==
    /\ ScoreStart
    /\ MergeIdle /\ BatchIdle /\ PoolIdle /\ ContentIdle /\ KeyPointsIdle
    /\ MapperIdle /\ FlowIdle /\ ApiIdle /\ BrowserPoolIdle
SpecScore == InitScore /\ [][NextScore]_vars

InitMapper ==
    /\ MapperStart
    /\ MergeIdle /\ BatchIdle /\ PoolIdle /\ ContentIdle /\ KeyPointsIdle
    /\ ScoreIdle /\ FlowIdle /\ ApiIdle /\ BrowserPoolIdle
SpecMapper == InitMapper /\ [][NextMapper]_vars

InitFlow ==
    /\ FlowStart
    /\ MergeIdle /\ BatchIdle /\ PoolIdle /\ ContentIdle /\ KeyPointsIdle
    /\ ScoreIdle /\ MapperIdle /\ ApiIdle /\ BrowserPoolIdle
SpecFlow == InitFlow /\ [][NextFlow]_vars

InitApi ==
    /\ ApiStart
    /\ MergeIdle /\ BatchIdle /\ PoolIdle /\ ContentIdle /\ KeyPointsIdle
    /\ ScoreIdle /\ MapperIdle /\ FlowIdle /\ BrowserPoolIdle
SpecApi == InitApi /\ [][NextApi]_vars

InitBrowserPool ==
    /\ BrowserPoolStart
    /\ MergeIdle /\ BatchIdle /\ PoolIdle /\ ContentIdle /\ KeyPointsIdle
    /\ ScoreIdle /\ MapperIdle /\ FlowIdle /\ ApiIdle
SpecBrowserPool == InitBrowserPool /\ [][NextBrowserPool]_vars

-----------------------------------------------------------------------------
(* Properties of the merge step                                            *)

\* the articles that entered the merge, in order
MergeInput == ReadFrom(temp_files, 1)

InOutput(article) == \E k \in 1..Len(final_data.articles) : final_data.articles[k] = article

\* the dedup key as the specification words it
SpecKey(article) ==
    << Prefix(Lower(Strip(article.title)), 50), BeforeFirst(Strip(article.link), "?") >>

\* more than 80% token overlap between two titles that both exceed the minimum length
SpecSimilar(a, b) ==
    LET ta == Lower(Strip(a.title))
        tb == Lower(Strip(b.title))
        wa == WordSet(ta)
        wb == WordSet(tb)
    IN  /\ Len(ta) > 10 /\ Len(tb) > 10
        /\ 5 * Cardinality(wa \cap wb) > 4 * Max(Cardinality(wa), Cardinality(wb))

FirstOfKey(input, i) == \A j \in 1..(i - 1) : SpecKey(input[j]) # SpecKey(input[i])

\* C1 (as claimed): after a merge, the first input article carrying each dedup
\* key is present in the merged output.
C1_FirstOfKeyKept ==
    mphase = "merged" =>
        \A i \in 1..Len(MergeInput) :
            FirstOfKey(MergeInput, i) => InOutput(MergeInput[i])

\* C1 (amended): after a merge, every input article is present in the output
\* unless an earlier input article carries the same dedup key or an earlier
\* input article that was kept has a title with more than 80% token overlap;
\* so the first article carrying a key is kept unless it is title-similar to an
\* earlier kept article.
C1_FirstOfKeyKeptUnlessSimilar ==
    mphase = "merged" =>
        \A i \in 1..Len(MergeInput) :
            \/ InOutput(MergeInput[i])
            \/ \E j \in 1..(i - 1) : SpecKey(MergeInput[j]) = SpecKey(MergeInput[i])
            \/ \E j \in 1..(i - 1) :
                  InOutput(MergeInput[j]) /\ SpecSimilar(MergeInput[i], MergeInput[j])

\* a merge in which a first-of-key article was dropped for title similarity and
\* another first-of-key article that follows a kept one was kept
C1_Witness ==
    /\ mphase = "merged"
    /\ \E i \in 1..Len(MergeInput) :
          FirstOfKey(MergeInput, i) /\ ~InOutput(MergeInput[i])
    /\ \E i \in 2..Len(MergeInput) :
          FirstOfKey(MergeInput, i) /\ InOutput(MergeInput[i])

\* the scenario of C2: the two entries come from two different source queries
C2_Scenario ==
    /\ mphase = "merged"
    /\ temp_files \in { << TempFile("articles", <<ArtA1>>), TempFile("articles", <<ArtA2>>) >>,
                        << TempFile("articles", <<ArtA2>>), TempFile("articles", <<ArtA1>>) >> }

\* C2 (as claimed): merging "Bengaluru techie wins award" and "Bengaluru Techie
\* Wins Major Award" retains exactly one of them.
C2_RetainsExactlyOne == C2_Scenario => Len(final_data.articles) = 1

\* C2 (amended): merging the two entries retains both of them, in input order;
\* their token overlap is 4 of 5 tokens, exactly 80% and not more than 80%.
C2_RetainsBoth ==
    C2_Scenario => /\ final_data.articles = MergeInput
                   /\ final_data.metadata.duplicates_removed = 0

C2_Witness == C2_Scenario /\ Len(MergeInput) = 2

\* C3: a merge run on the output of a merge returns the same articles in the
\* same order and reports zero duplicates removed.
C3_Idempotent ==
    mphase = "remerged" =>
        /\ final_data.articles = prev_data.articles
        /\ final_data.metadata.duplicates_removed = 0
        /\ final_data.metadata.count = prev_data.metadata.count

\* a re-merge of an output from which the first merge had removed duplicates
C3_Witness ==
    /\ mphase = "remerged"
    /\ prev_data.metadata.duplicates_removed > 0
    /\ Len(prev_data.articles) >= 2

RECURSIVE SumCounts(_, _)
SumCounts(source_files, i) ==
    IF i > Len(source_files) THEN 0
    ELSE source_files[i].article_count + SumCounts(source_files, i + 1)

RECURSIVE ArticlesRead(_, _)
\* number of articles in the files that exist, parse and hold 'articles'
ArticlesRead(files, i) ==
    IF i > Len(files) THEN 0
    ELSE (IF files[i].kind = "articles" THEN Len(files[i].articles) ELSE 0)
         + ArticlesRead(files, i + 1)

\* C4: after every merge, count is the number of output articles and
\* count + duplicates_removed is the number of articles read from the readable
\* input files (which is also the sum of the recorded per-file article counts).
C4_CountsAddUp ==
    mphase \in {"merged", "remerged"} =>
        /\ final_data.metadata.count = Len(final_data.articles)
        /\ final_data.metadata.count + final_data.metadata.duplicates_removed
             = ArticlesRead(temp_files, 1)
        /\ SumCounts(final_data.metadata.source_files, 1) = ArticlesRead(temp_files, 1)

\* a merge that skipped a file and removed a duplicate by title similarity
C4_Witness ==
    /\ mphase = "merged"
    /\ \E i \in 1..Len(temp_files) : temp_files[i].kind # "articles"
    /\ final_data.metadata.duplicates_removed > 0
    /\ \A i, j \in 1..Len(MergeInput) : i # j => SpecKey(MergeInput[i]) # SpecKey(MergeInput[j])


-----------------------------------------------------------------------------
(* Properties of the extraction batch                                      *)

\* the browser can navigate to the entry's link and page.goto times out
NavigationTimedOut(entry) ==
    /\ Truthy(entry.link) /\ ~entry.page.raises
    /\ entry.page.goto = "timeout"

\* the entry's link is an aggregator link on whose page no valid external link
\* is found
RedirectUnresolved(entry) ==
    /\ Truthy(entry.link) /\ ~entry.page.raises
    /\ extract_article_details_playwright(entry.link, entry.page).description
           = GnFailedDescription

\* every content strategy yielded nothing substantial for the entry
ExtractionEmpty(entry) ==
    /\ Truthy(entry.link) /\ ~entry.page.raises
    /\ extract_article_details_playwright(entry.link, entry.page).description
           = SentinelNoContent

\* the positions in articles of the articles made from entry ('published' is
\* copied from the entry to its article and differs between the entries)
EmittedFor(entry, articles) ==
    {k \in 1..Len(articles) : articles[k].published = entry.published}

\* C5: once the batch output is written, every entry taken into the batch whose
\* aggregator redirect was not resolved, or whose extraction yielded only the
\* sentinel description, has an article in the output, also when several
\* entries of the batch fail in the same way.
C5_DegradedEntriesEmitted ==
    output_data.written =>
        \A i \in 1..Len(ArticlesToProcess) :
            (RedirectUnresolved(ArticlesToProcess[i]) \/ ExtractionEmpty(ArticlesToProcess[i]))
                => EmittedFor(ArticlesToProcess[i], output_data.articles) # {}

\* C6: the article emitted for an entry whose navigation timed out, or whose
\* aggregator redirect was not resolved, has an 'error' field, and the batch
\* counts no such entry as successful.
C6_FailuresCarryErrorField ==
    output_data.written =>
        LET failed == {i \in 1..Len(ArticlesToProcess) :
                          \/ NavigationTimedOut(ArticlesToProcess[i])
                          \/ RedirectUnresolved(ArticlesToProcess[i])}
        IN  /\ \A i \in failed :
                  \A k \in EmittedFor(ArticlesToProcess[i], output_data.articles) :
                      "error" \in DOMAIN output_data.articles[k]
            /\ successful_articles <= Len(ArticlesToProcess) - Cardinality(failed)

\* C7: a script that exits with 0 has processed every entry of its batch, and a
\* batch with zero successfully processed articles exits with a non-zero
\* status and is not counted as a successful category by step 2.
C7_ZeroSuccessIsHardFailure ==
    /\ (bpc = "exited" /\ exit_code = 0) => bi = Len(ArticlesToProcess)
    /\ (bpc = "exited" /\ successful_articles = 0) => exit_code # 0
    /\ (bpc \in {"counted", "gated"} /\ successful_articles = 0) => step2_success = 0

\* C8: the entries taken into the batch are the emitted articles plus the
\* dropped ones recorded in the output metadata, and the articles given to the
\* validation gate are the accepted ones plus the rejected ones its result
\* reports.
C8_DroppedAreCounted ==
    /\ output_data.written =>
           Len(ArticlesToProcess)
               = output_data.metadata.total_articles + RecordedDropped(output_data.metadata)
    /\ bpc = "gated" =>
           Len(output_data.articles) = Len(gate_result) + RejectedInResult(gate_result)

-----------------------------------------------------------------------------
(* Properties of the Selenium batch                                        *)

\* the articles a driver is executing process_single_article for
InFlightOn(d) == {k \in 1..Len(sel_tasks) : Running(k) /\ sel_tasks[k].driver = d}

\* C9: in pooled mode no driver executes process_single_article for two
\* articles at the same time.
C9_DriverUsedByOneArticle ==
    sel_workers > 1 =>
        \A d \in 1..Len(sel_drivers) : Cardinality(InFlightOn(d)) <= 1

\* C10: when the run has ended, quit() was called on every session the run
\* opened: none is still open and none was lost inside setup_selenium.
C10_EverySessionClosed ==
    sel_pc = "done" =>
        /\ sel_leaked = 0
        /\ \A d \in 1..Len(sel_drivers) : sel_drivers[d] # "open"

\* the worker threads take no step: no task starts or stops running
WorkersStill ==
    /\ Len(sel_tasks') = Len(sel_tasks)
    /\ \A k \in 1..Len(sel_tasks) :
           (sel_tasks[k].state = "running") = (sel_tasks'[k].state = "running")

\* the submitting thread appends the result of one completed future
AppendsOneCompleted ==
    /\ Len(sel_results') = Len(sel_results) + 1
    /\ SubSeq(sel_results', 1, Len(sel_results)) = sel_results
    /\ \E k \in 1..Len(sel_tasks) :
           /\ sel_tasks[k].state = "finished"
           /\ sel_tasks'[k].state = "collected"
           /\ sel_results'[Len(sel_results')].article = k

\* C11: in pooled mode processed_articles changes only by the submitting thread
\* appending the result of one completed future; no step of a worker thread
\* (a task starting or finishing) changes the list.
C11_SingleWriter ==
    [][(sel_workers > 1 /\ sel_results' # sel_results)
          => (WorkersStill /\ AppendsOneCompleted)]_vars

\* a result was appended while another article is still in flight in a worker
C11_Witness ==
    /\ sel_workers > 1
    /\ Len(sel_results) >= 1
    /\ \E k \in 1..Len(sel_tasks) : Running(k)

-----------------------------------------------------------------------------
(* Properties of the validation gate                                       *)

\* the placeholder image URLs the pipeline writes
PlaceholderImages ==
    {NoImagePlaceholder, NoUrlPlaceholder, ErrorPlaceholder, GnFailedPlaceholder,
     GnErrorPlaceholder}

\* C12: every record handed to store_news has a non-empty title and an
\* image_url that is none of the pipeline's placeholder image URLs.
C12_NoPlaceholderStored ==
    bpc = "gated" =>
        \A k \in 1..Len(gate_result) :
            /\ gate_result[k].title # ""
            /\ gate_result[k].image_url \notin PlaceholderImages

-----------------------------------------------------------------------------
(* Properties of the content extractor                                     *)

\* C13: every description the extractor returns is the sentinel
\* "Article content could not be extracted." or at least MinSubstanceLen long.
C13_MinimumSubstance ==
    cpc = "returned" =>
        \/ final_content = SentinelNoContent
        \/ Len(final_content) >= MinSubstanceLen

\* the candidates that are relevant to the page title
RelevantCandidates ==
    {i \in 1..Len(content_candidates) :
        validate_content_relevance(content_candidates[i].content, content_page.title)}

\* the candidates that are relevant to the page title and longer than 300
SubstantialRelevantCandidates ==
    {i \in RelevantCandidates : content_candidates[i].length > SubstantialLen}

\* best_content is a longest candidate among those with index in among
LongestOf(among) ==
    /\ \E i \in among : content_candidates[i] = best_content
    /\ \A i \in among : content_candidates[i].length <= best_content.length

\* the extractor returned and no exception had reached its outer except
ExtractorReturned ==
    /\ cpc = "returned"
    /\ ~content_page.raises
    /\ ~(content_page.title_raises /\ content_candidates # <<>>)

\* C14 as stated: with a title-relevant candidate the longest title-relevant
\* candidate is returned, without one the longest candidate, and the synthetic
\* message only when there is no candidate.
C14_LongestRelevant ==
    ExtractorReturned =>
        IF content_candidates = <<>> THEN final_content = SentinelNoContent
        ELSE /\ final_content = LimitLength(best_content.content)
             /\ IF RelevantCandidates # {} THEN LongestOf(RelevantCandidates)
                ELSE LongestOf(1..Len(content_candidates))

\* C14 amended: with a title-relevant candidate longer than 300 characters the
\* longest such candidate is returned; otherwise the longest candidate is
\* returned, title-relevant or not; the synthetic message is returned only
\* when there is no candidate.
C14_LongestSubstantialRelevant ==
    ExtractorReturned =>
        IF content_candidates = <<>> THEN final_content = SentinelNoContent
        ELSE /\ final_content = LimitLength(best_content.content)
             /\ IF SubstantialRelevantCandidates # {}
                THEN LongestOf(SubstantialRelevantCandidates)
                ELSE LongestOf(1..Len(content_candidates))

\* a title-relevant candidate of at most 300 characters lost against a longer
\* candidate that is not title-relevant
C14_Witness ==
    /\ ExtractorReturned
    /\ RelevantCandidates # {}
    /\ SubstantialRelevantCandidates = {}
    /\ \E i \in 1..Len(content_candidates) :
           /\ i \notin RelevantCandidates
           /\ content_candidates[i] = best_content
           /\ best_content.length > SubstantialLen

-----------------------------------------------------------------------------
(* Properties of the emitted title, image and id                           *)

\* the page of the entry was reached and every title strategy failed on it
AllTitleStrategiesFail(entry) ==
    /\ Truthy(entry.link) /\ ~entry.page.raises
    /\ "error" \notin DOMAIN extract_article_details_playwright(entry.link, entry.page)
    /\ ~Truthy(entry.page.clean_title)

\* C15: every emitted article has a non-empty title, and the article of an
\* entry on whose page every title strategy failed has the title of the entry.
C15_TitleFallsBackToFeedTitle ==
    output_data.written =>
        /\ \A k \in 1..Len(output_data.articles) : Truthy(output_data.articles[k].title)
        /\ \A i \in 1..Len(ArticlesToProcess) :
               AllTitleStrategiesFail(ArticlesToProcess[i]) =>
                   \A k \in EmittedFor(ArticlesToProcess[i], output_data.articles) :
                       output_data.articles[k].title = ArticlesToProcess[i].title

\* C16: the image_url of every emitted article is not null.
C16_ImageNeverNull ==
    output_data.written =>
        \A k \in 1..Len(output_data.articles) :
            /\ "image_url" \in DOMAIN output_data.articles[k]
            /\ output_data.articles[k].image_url # None

\* C18: two normally assembled articles with the same emitted url, title and
\* source have the same id.
C18_IdDeterminedByTriple ==
    output_data.written =>
        \A j, k \in 1..Len(output_data.articles) :
            LET a == output_data.articles[j]
                b == output_data.articles[k]
            IN  ("error" \notin DOMAIN a /\ "error" \notin DOMAIN b
                 /\ a.url = b.url /\ a.title = b.title /\ a.source = b.source)
                    => a.id = b.id

-----------------------------------------------------------------------------
(* Properties of generate_key_points                                       *)

RECURSIVE NonEmptyPunctuatedFrom(_, _)
NonEmptyPunctuatedFrom(parts, i) ==
    IF i > Len(parts) THEN <<>>
    ELSE (IF Strip(parts[i]) = "" THEN <<>> ELSE <<Punctuated(parts[i])>>)
         \o NonEmptyPunctuatedFrom(parts, i + 1)

\* every sentence of the description, in order, punctuated as a key point is
SentencesOf(description) ==
    IF description = None THEN <<>>
    ELSE NonEmptyPunctuatedFrom(SplitSentences(Strip(description)), 1)

RECURSIVE IsSubsequenceFrom(_, _, _, _)
\* a[i..] can be read off b[j..] from left to right, each element of b used once
IsSubsequenceFrom(a, i, b, j) ==
    IF i > Len(a) THEN TRUE
    ELSE IF j > Len(b) THEN FALSE
    ELSE IF a[i] = b[j] THEN IsSubsequenceFrom(a, i + 1, b, j + 1)
    ELSE IsSubsequenceFrom(a, i, b, j + 1)

\* C17: generate_key_points returns at most 5 key points, each one a distinct
\* sentence of the description, in the order of the description, and returns
\* the empty list when the description has fewer than 50 characters.
C17_KeyPointsDistinctInOrder ==
    kpc = "returned" =>
        /\ Len(key_points) <= MaxKeyPoints
        /\ IsSubsequenceFrom(key_points, 1, SentencesOf(kp_description), 1)
        /\ (kp_description = None \/ Len(Strip(kp_description)) < MinSubstanceLen)
              => key_points = <<>>

-----------------------------------------------------------------------------
(* Properties of calculate_content_quality_score                           *)

\* the article reaches every maximum: breaking news, the highest base score,
\* the regional boost and a trusted source
MaximalArticle ==
    LET all_text == AllText(sc_title, sc_description)
    IN  /\ importance_score(all_text) = BreakingScore
        /\ base_score(sc_title, sc_image_url, sc_description, all_text) = 320
        /\ regional_boost(all_text) = RegionalBoost
        /\ source_multiplier(sc_source) = TrustedMultiplier

\* C19: for all titles, descriptions, image URLs and sources the returned
\* score q satisfies 0 <= q <= 1000 (scores are in tenths of a point), also
\* when importance, base score and regional boost are maximal and the source
\* is trusted.
C19_ScoreBounded ==
    /\ spc \in {"scored", "compared"} =>
          quality_score >= 0 /\ quality_score <= MaxScore * Tenths
    /\ spc = "compared" => kw_score >= 0 /\ kw_score <= MaxScore * Tenths

C19_Witness ==
    /\ spc = "scored"
    /\ MaximalArticle
    /\ quality_score = MaxScore * Tenths

\* C20: adding a breaking-news keyword as an extra word to the title or to
\* the description never gives a lower score than the unchanged article has.
C20_BreakingKeywordMonotonic ==
    spc = "compared" => kw_score >= quality_score

-----------------------------------------------------------------------------
(* Properties of the duplicate filter of the Playwright batch              *)

\* the results of the entries the loop has gone through, in order
ProcessedResults ==
    [k \in 1..bi |-> process_single_article_playwright(ArticlesToProcess[k])]

\* hashlib.md5(description[:200]) of an article with a description
HashOf(result) == MD5(Prefix(result.description, ContentHashLen))

HasDescription(result) == Truthy(GetDescription(result))

\* C29: no two articles of the output list that have a non-empty description
\* share the hash of the first 200 characters of the description, and of several
\* processed articles with equal hash the first processed one is the one in
\* the list.
C29_OneArticlePerContentHash ==
    /\ \A j, k \in 1..Len(processed_articles) :
          (j < k /\ HasDescription(processed_articles[j]) /\ HasDescription(processed_articles[k]))
             => HashOf(processed_articles[j]) # HashOf(processed_articles[k])
    /\ \A k \in 1..bi :
          LET result == ProcessedResults[k]
              first == \A j \in 1..(k - 1) :
                          HasDescription(ProcessedResults[j]) => HashOf(ProcessedResults[j]) # HashOf(result)
          IN  HasDescription(result) =>
                 (first <=> \E a \in 1..Len(processed_articles) : processed_articles[a] = result)

\* two entries with the same description have gone through the loop and the
\* output is written
C29_Witness ==
    /\ output_data.written
    /\ \E j, k \in 1..bi :
          /\ j < k
          /\ HasDescription(ProcessedResults[j]) /\ HasDescription(ProcessedResults[k])
          /\ HashOf(ProcessedResults[j]) = HashOf(ProcessedResults[k])
          /\ ProcessedResults[j] # ProcessedResults[k]

-----------------------------------------------------------------------------
(* Properties of map_source_to_final_category                              *)

\* C21: a label that is a key of the exact-match table is mapped to the
\* category the table assigns to it, whatever region names or base-category
\* keywords it contains.
C21_ExactMatchFirst ==
    (mapc \in {"mapped", "remapped"} /\ map_label \in DOMAIN specific_mappings)
        => map_result = specific_mappings[map_label]

\* C30: mapping the category that was recovered from the file name of a
\* mapped category gives the same category: map(map(x)) = map(x).
C30_MapperIdempotent ==
    mapc = "remapped" =>
        /\ map_again = map_result
        /\ map_source_to_final_category(map_source_to_final_category(map_label))
              = map_source_to_final_category(map_label)

\* a label that a rule changed has been mapped twice
C30_Witness ==
    /\ mapc = "remapped"
    /\ map_result # map_label
    /\ map_label \in DOMAIN specific_mappings
    /\ map_again = specific_mappings[map_label]

-----------------------------------------------------------------------------
(* Properties of BrowserPool                                               *)

\* the browsers on which quit() was never called
LiveSessions == {s \in 1..Len(bp_sessions) : bp_sessions[s].state = "live"}

\* the pool holds at most one browser, and a normal return of get_driver
\* carries a driver
OneBrowserAndDriverReturned ==
    /\ Cardinality(LiveSessions) <= 1
    /\ LiveSessions = IF bp_driver = NoDriver THEN {} ELSE {bp_driver}
    /\ (bp_call.op = "get_driver" /\ bp_call.result = "returned") => bp_call.driver # NoDriver

\* a step that creates a browser finds no browser, an unresponsive one or one
\* that was idle too long, and quit() has been called on every older browser
CreatesOnlyWhenNeeded ==
    Len(bp_sessions') > Len(bp_sessions) =>
        /\ \/ bp_driver = NoDriver
           \/ bp_call'.created = "unresponsive"
           \/ bp_last_used # 0 /\ bp_now - bp_last_used > MaxIdleTime
        /\ bp_call'.op = "get_driver"
        /\ \A s \in 1..Len(bp_sessions) : bp_sessions'[s].state # "live"

\* C25: get_driver creates a browser only when the pool has none, the current
\* one is unresponsive or it was idle longer than max_idle_time; the stale
\* browser is quit and cleared before the replacement is created, so the pool
\* holds at most one browser after any sequence of get_driver, reset_if_needed
\* and cleanup calls, and a get_driver call that returns normally returns a driver.
C25_AtMostOneBrowser ==
    [](OneBrowserAndDriverReturned) /\ [][CreatesOnlyWhenNeeded]_vars

\* a browser that was idle too long has been quit and replaced, and the
\* replacement was returned
C25_Witness ==
    /\ Len(bp_sessions) >= 2
    /\ bp_sessions[1].state = "quit"
    /\ bp_driver = Len(bp_sessions)
    /\ bp_call.op = "get_driver" /\ bp_call.result = "returned"
    /\ bp_call.created = "idle"
    /\ bp_call.driver = bp_driver

\* C28: a driver that get_driver returned to a thread which still uses it is
\* not quit by a get_driver call of another thread.
C28_NotQuitWhileInUse ==
    [][\A t \in Threads :
          (/\ bp_using[t] # NoDriver
           /\ bp_sessions[bp_using[t]].state = "live"
           /\ bp_using'[t] = bp_using[t]
           /\ bp_call'.op = "get_driver" /\ bp_call'.thread # t)
             => bp_sessions'[bp_using[t]].state = "live"]_vars

-----------------------------------------------------------------------------
(* Properties of the API handlers                                          *)

\* number of times call occurs in the trace of the last request
Calls(call) == Cardinality({k \in 1..Len(api_trace) : api_trace[k] = call})

\* a GET /top-news with default parameters whose news service call would not raise
DefaultTopNewsRequest ==
    /\ api_request.endpoint = "/top-news"
    /\ api_request.use_cache
    /\ ~api_request.service_raises

\* C23: every GET /top-news with default parameters calls get_top_news once,
\* formats that result with format_news_data and responds 200 with the
\* formatted list, whatever is stored for category "top".
C23_TopNewsCallsServiceOnce ==
    DefaultTopNewsRequest =>
        /\ Calls("get_top_news") = 1
        /\ Calls("format_news_data") = 1
        /\ api_response.status = 200
        /\ api_response.body = api_request.formatted

InvalidTopicRequest ==
    /\ api_request.endpoint = "/topic-headlines"
    /\ \A k \in 1..Len(valid_topics) : valid_topics[k] # Lower(api_request.topic)

\* C24: a topic outside the seven valid topics is answered with 400 and an
\* "Invalid topic" detail; the cache is not read, the news service is not
\* called and nothing is stored.
C24_InvalidTopicRejected ==
    InvalidTopicRequest =>
        /\ api_response.status = 400
        /\ Contains(api_response.detail, "Invalid topic")
        /\ api_trace = <<>>
        /\ api_stored = 0

\* an invalid topic was requested while the table held rows and the service
\* had a feed to return
C24_Witness ==
    /\ InvalidTopicRequest
    /\ api_response.status = 400
    /\ api_table # <<>>
    /\ api_request.formatted # <<>>

-----------------------------------------------------------------------------
(* Properties of the workflow                                              *)

\* the news files of the requested categories that existed before the run
NewsFilesBefore ==
    {f \in flow_before :
        \E k \in 1..Len(flow_args.categories) :
            f = File(flow_args.data_dir, NewsFileName(FinalCategoryOf[flow_args.categories[k]]))}

\* the input files step 2 found
InputsFound == {flow_result.found[k].input_file : k \in 1..Len(flow_result.found)}

\* C22: in a run with --skip-fetch, the news_<category>.json files that were
\* in the data directory before the run are still there when step 2 looks
\* for its input files, and step 2 takes them as its input.
C22_SkipFetchUsesExistingFiles ==
    (flow_args.skip_fetch /\ flow_result.step2_looked) => NewsFilesBefore \subseteq InputsFound

\* a run stopped by a step that ran and had no success
ZeroSuccess ==
    \/ flow_result.step1_ran /\ flow_result.step1_success = 0
    \/ flow_result.step2_ran /\ flow_result.step2_success = 0

\* C26: when the fetch step ran and fetched nothing, or the extraction step
\* ran and succeeded for no category, the upload step is never started; the
\* run has stopped after that step with exit code 1.
C26_NoUploadAfterZeroSuccess ==
    ZeroSuccess =>
        /\ ~flow_result.step3_started
        /\ flow_pc = "exited"
        /\ flow_result.exit_code = 1
        /\ (flow_result.step1_ran /\ flow_result.step1_success = 0) => ~flow_result.step2_ran

\* an upload was requested, the extractor ran and failed for every category
C26_Witness ==
    /\ ~flow_args.skip_supabase
    /\ flow_result.step2_ran
    /\ flow_result.step2_success = 0
    /\ flow_extractions # <<>>
    /\ Len(flow_extractions) = Len(flow_result.found)
    /\ \A k \in 1..Len(flow_extractions) : ~flow_extractions[k].ok
    /\ flow_result.exit_code = 1

\* C27: step 2 runs the extractor at most once per canonical category.
C27_OneExtractionPerCategory ==
    \A i, j \in 1..Len(flow_extractions) :
        flow_extractions[i].final_category = flow_extractions[j].final_category => i = j

====
